---------------------------- MODULE Spec2Model ----------------------------
(***************************************************************************)
(* A model of color-channels (spakin/color-channels): splitting an image   *)
(* into grayscale channel images and merging channel images back.          *)
(*                                                                         *)
(* The real numbers of the codec and of the colors are modelled as exact   *)
(* rationals <<n, d>> with d > 0; the white point is computed in float64,  *)
(* bit for bit.  All integer products are arranged to stay below 2^31.     *)
(*                                                                         *)
(* The module holds several specifications over one set of variables:      *)
(*   SpecCodec  the channel codec (toGrayVal and the merge-side decode)    *)
(*   SpecCmd    the program: ParseCommandLine, SplitImage, MergeChannels   *)
(*   SpecPixel  one pixel through SPLIT, the PNG files and MERGE           *)
(*   SpecRows   one call of splitAny, its goroutines interleaved           *)
(*   SpecByte   one 8-bit channel value through SPLIT and MERGE, in float64 *)
(* A specification leaves the variables of the others at their idle value. *)
(***************************************************************************)
EXTENDS Integers, Sequences, FiniteSets, TLC

VARIABLES
    \* --- SpecCodec: one scalar through encode and decode
    cPc,        \* "input" | "encoded" | "decoded"
    cDepth,     \* bit depth of the codec: 8 or 16
    cKind,      \* declared range of the channel: "unit" | "sym" | "hue"
    cK,         \* the scalar, as a grid index (see ScalarOf)
    cSample,    \* the sample toGrayVal produced
    cOut,       \* the decoded scalar, a rational
    \* --- SpecPixel: one pixel through SPLIT, the channel files and MERGE
    xPc,        \* "source" | "split" | "files" | "merged"
    xModel,     \* p.ColorSpace
    xAlpha,     \* p.Alpha
    xSrc,       \* the pixel of the source image (t = "none": no source image)
    xFwd,       \* the values the Split* function handed to toGrayVal
    xBufs,      \* the pixel's sample in each channel buffer, alpha last
    xClr,       \* the colorful.Color built by Merge* before clamping
    xMerged,    \* the pixel of the image Merge* returned
    xOut,       \* the pixel of the image MergeChannels writes
    xWhites,    \* p.WhitePoint of this run, and of a second run on the same inputs
    xBufs2,     \* the second run's samples of the pixel's channel buffers
    xOut2,      \* the pixel of the image the second run's MergeChannels writes
    \* --- SpecCmd: one run of main on a command line
    aSpace,     \* the --space argument, a sequence of characters
    aSplit,     \* --split given
    aMerge,     \* --merge given
    aOut,       \* the -o argument, a sequence of characters
    aInputs,    \* the remaining arguments: names of input files
    aWhite,     \* the --white argument, a sequence of characters
    mPc,        \* where main is
    p,          \* the Parameters struct
    mImage,     \* the image SplitImage read / the image MergeChannels built
    mOuts,      \* SplitImage: outImgs
    mChannels,  \* MergeChannels: channels
    mReads,     \* names of the files opened for reading, in order
    mWritten,   \* the files written, in order
    mFatal,     \* the notify.Fatal that ended the run ("" if none)
    \* --- SpecRows: one call of splitAny, the caller and a goroutine per row
    rModel,     \* the model whose Split* function called splitAny
    rBnds,      \* img.Bounds(), as <<width, height>>
    rImg,       \* the source image: the pixel at each <<x, y>>
    rSamples,   \* per location, the samples fn and toGrayVal give for its pixel
    rMain,      \* where the caller is: "spawn" | "result" | "returned"
    rY,         \* the caller's loop variable y
    rWg,        \* the counter of the sync.WaitGroup
    rW,         \* per row: the goroutine's pc, its x and the channel it writes next
    rGrays,     \* grays: per channel, the sample at each <<x, y>>
    rLog,       \* per channel and location, the rows whose goroutine wrote it
    rDone,      \* the rows, in the order their goroutines called wg.Done()
    rResult,    \* the []ImageInfo returned: per channel its name and buffer
    bPc,        \* the 8-bit channel value: "value", "stored", "read"
    bV,         \* the 8-bit output of image/color's transform
    bSample,    \* the sample SPLIT stores for it
    bHigh       \* the 8-bit value MERGE takes from the sample

codecVars == <<cPc, cDepth, cKind, cK, cSample, cOut>>
pixelVars == <<xPc, xModel, xAlpha, xSrc, xFwd, xBufs, xClr, xMerged, xOut,
               xWhites, xBufs2, xOut2>>

argVars == <<aSpace, aSplit, aMerge, aOut, aInputs, aWhite>>
cmdVars == <<aSpace, aSplit, aMerge, aOut, aInputs, aWhite,
             mPc, p, mImage, mOuts, mChannels, mReads, mWritten, mFatal>>

rowsVars ==
    <<rModel, rBnds, rImg, rSamples, rMain, rY, rWg, rW, rGrays, rLog, rDone, rResult>>

byteVars == <<bPc, bV, bSample, bHigh>>

vars == <<codecVars, pixelVars, cmdVars, rowsVars, byteVars>>

-----------------------------------------------------------------------------
(* Bounds of the model *)

\* Grid points per quantization step of a channel scalar.
SubSteps == 3

\* Half-width, in samples, of the windows of scalars taken around the lowest,
\* the middle and the highest sample of a codec.
CodecWindow == 64

\* How many grid points below the declared minimum and above the declared
\* maximum are fed to encode.
OverRange == 4

-----------------------------------------------------------------------------
(* Integer and rational helpers *)

Abs(x) == IF x < 0 THEN -x ELSE x

RECURSIVE GCD(_, _)
GCD(a, b) == IF b = 0 THEN a ELSE GCD(b, a % b)

\* The rational n/d in lowest terms with a positive denominator.
Rat(n, d) ==
    LET g == GCD(Abs(n), Abs(d))
        s == IF d < 0 THEN -1 ELSE 1
    IN  <<s * (n \div g), s * (d \div g)>>

RatInt(i) == <<i, 1>>

\* floor(a * b / c) for 0 <= a, 0 <= b < 2^16, 0 < c, without ever forming a * b.
FloorMulDiv(a, b, c) ==
    LET bh == b \div 256
        bl == b % 256
        q1 == (a * bh) \div c
        r1 == (a * bh) % c
    IN  q1 * 256 + ((r1 * 256 + a * bl) \div c)

\* x + y and x - y, over the least common denominator.
RatAdd(x, y) ==
    LET d == (x[2] \div GCD(x[2], y[2])) * y[2]
    IN  Rat(x[1] * (d \div x[2]) + y[1] * (d \div y[2]), d)

RatSub(x, y) == RatAdd(x, <<-y[1], y[2]>>)

\* x / m and x * m for an integer m > 0.
RatDivInt(x, m) ==
    LET g == GCD(Abs(x[1]), m)
    IN  <<x[1] \div g, x[2] * (m \div g)>>

RatMulInt(x, m) ==
    LET g == GCD(x[2], m)
    IN  <<x[1] * (m \div g), x[2] \div g>>

RatNeg(x) == x[1] < 0
RatAbs(x) == <<Abs(x[1]), x[2]>>

\* The order of a/b and c/d (-1, 0, 1) for a, c >= 0 and b, d > 0, by Euclid's
\* algorithm: no product is formed.
RECURSIVE CmpPos(_, _, _, _)
CmpPos(a, b, c, d) ==
    LET qa == a \div b
        qc == c \div d
        ra == a % b
        rc == c % d
    IN  IF qa # qc THEN (IF qa < qc THEN -1 ELSE 1)
        ELSE IF ra = 0 /\ rc = 0 THEN 0
        ELSE IF ra = 0 THEN -1
        ELSE IF rc = 0 THEN 1
        ELSE CmpPos(d, rc, b, ra)

RatCmp(x, y) ==
    IF x[1] < 0 /\ y[1] >= 0 THEN -1
    ELSE IF x[1] >= 0 /\ y[1] < 0 THEN 1
    ELSE IF x[1] < 0 THEN CmpPos(-y[1], y[2], -x[1], x[2])
    ELSE CmpPos(x[1], x[2], y[1], y[2])

\* x <= y and x < y.
RatLeq(x, y) == RatCmp(x, y) <= 0
RatLt(x, y) == RatCmp(x, y) < 0

\* x * y and x / y (y > 0), cancelling across before multiplying.
RatMul(x, y) ==
    LET g1 == GCD(Abs(x[1]), y[2])
        g2 == GCD(Abs(y[1]), x[2])
    IN  <<(x[1] \div g1) * (y[1] \div g2), (x[2] \div g2) * (y[2] \div g1)>>

RatDiv(x, y) == RatMul(x, <<y[2], y[1]>>)

\* <<floor(a * b / c), (a * b) % c>> for 0 <= a, 0 <= b < 2^16, 0 < c.
MulDivMod(a, b, c) ==
    LET bh == b \div 256
        bl == b % 256
        q1 == (a * bh) \div c
        r1 == (a * bh) % c
        u  == r1 * 256 + a * bl
    IN  <<q1 * 256 + (u \div c), u % c>>

\* floor(x * m + 1/2) for a rational x >= 0 and 0 < m < 2^16.
RoundScale(x, m) ==
    LET qr == MulDivMod(2 * x[1], m, 2 * x[2])
    IN  qr[1] + (IF qr[2] >= x[2] THEN 1 ELSE 0)

\* floor(x * m) for a rational x >= 0 and 0 < m < 2^16.
FloorScale(x, m) == FloorMulDiv(x[1], m, x[2])

-----------------------------------------------------------------------------
(* float64 arithmetic, exactly: parseWhitePoint computes with the doubles   *)
(* strconv.ParseFloat returns, and every operation rounds to nearest, ties  *)
(* to even, with a 53-bit significand.  Natural numbers of any size are     *)
(* sequences of 15-bit limbs, lowest first, without leading zero limbs      *)
(* (<<>> is 0).  Exponents stay far inside the float64 range for the        *)
(* numerals of the model, so there are no subnormals and no infinities.     *)

Limb == 2^15

RECURSIVE BigTrim(_, _)
BigTrim(a, n) ==
    IF n = 0 THEN <<>>
    ELSE IF a[n] # 0 THEN SubSeq(a, 1, n)
    ELSE BigTrim(a, n - 1)

BigNorm(a) == BigTrim(a, Len(a))

RECURSIVE BigFromInt(_)
BigFromInt(n) == IF n = 0 THEN <<>> ELSE <<n % Limb>> \o BigFromInt(n \div Limb)

LimbAt(a, i) == IF i <= Len(a) THEN a[i] ELSE 0

RECURSIVE BigAddFrom(_, _, _, _)
BigAddFrom(a, b, i, c) ==
    IF i > Len(a) /\ i > Len(b) THEN (IF c = 0 THEN <<>> ELSE <<c>>)
    ELSE LET s == LimbAt(a, i) + LimbAt(b, i) + c
         IN  <<s % Limb>> \o BigAddFrom(a, b, i + 1, s \div Limb)

BigAdd(a, b) == BigAddFrom(a, b, 1, 0)

\* a - b for a >= b.
RECURSIVE BigSubFrom(_, _, _, _)
BigSubFrom(a, b, i, c) ==
    IF i > Len(a) THEN <<>>
    ELSE LET d == a[i] - LimbAt(b, i) - c
         IN  <<d % Limb>> \o BigSubFrom(a, b, i + 1, IF d < 0 THEN 1 ELSE 0)

BigSub(a, b) == BigNorm(BigSubFrom(a, b, 1, 0))

\* -1, 0 or 1 as a is below, equal to or above b.
RECURSIVE BigCmpFrom(_, _, _)
BigCmpFrom(a, b, i) ==
    IF i = 0 THEN 0
    ELSE IF a[i] # b[i] THEN (IF a[i] < b[i] THEN -1 ELSE 1)
    ELSE BigCmpFrom(a, b, i - 1)

BigCmp(a, b) ==
    IF Len(a) # Len(b) THEN (IF Len(a) < Len(b) THEN -1 ELSE 1)
    ELSE BigCmpFrom(a, b, Len(a))

\* a * s + c for 0 <= s, c < Limb.
RECURSIVE BigMulSmallFrom(_, _, _, _)
BigMulSmallFrom(a, s, i, c) ==
    IF i > Len(a) THEN (IF c = 0 THEN <<>> ELSE <<c>>)
    ELSE LET t == a[i] * s + c
         IN  <<t % Limb>> \o BigMulSmallFrom(a, s, i + 1, t \div Limb)

BigMulSmall(a, s) == IF s = 0 THEN <<>> ELSE BigMulSmallFrom(a, s, 1, 0)

\* a * Limb^n.
BigShlLimbs(a, n) == IF a = <<>> THEN <<>> ELSE [i \in 1..n |-> 0] \o a

RECURSIVE BigMulFrom(_, _, _)
BigMulFrom(a, b, j) ==
    IF j > Len(b) THEN <<>>
    ELSE BigAdd(BigMulSmall(a, b[j]), BigShlLimbs(BigMulFrom(a, b, j + 1), 1))

BigMul(a, b) == BigMulFrom(a, b, 1)

\* The quotient of a by 0 < s < Limb, from the top limb down.
RECURSIVE BigDivSmallFrom(_, _, _, _)
BigDivSmallFrom(a, s, i, r) ==
    IF i = 0 THEN <<>>
    ELSE LET cur == r * Limb + a[i]
         IN  BigDivSmallFrom(a, s, i - 1, cur % s) \o <<cur \div s>>

BigDivSmall(a, s) == BigNorm(BigDivSmallFrom(a, s, Len(a), 0))

\* a * 2^k and the whole part of a / 2^k.
BigShl(a, k) == BigShlLimbs(BigMulSmall(a, 2^(k % 15)), k \div 15)

BigShr(a, k) ==
    IF k \div 15 >= Len(a) THEN <<>>
    ELSE BigDivSmall(SubSeq(a, k \div 15 + 1, Len(a)), 2^(k % 15))

\* The number of bits of a.
BitLen(a) ==
    IF a = <<>> THEN 0
    ELSE 15 * (Len(a) - 1)
         + (CHOOSE k \in 1..15 : 2^(k - 1) <= a[Len(a)] /\ a[Len(a)] < 2^k)

RECURSIVE BigPow10(_)
BigPow10(k) == IF k = 0 THEN <<1>> ELSE BigMulSmall(BigPow10(k - 1), 10)

\* The largest d < Limb with b * d <= r, one bit of d at a time.
RECURSIVE QuotientLimb(_, _, _, _)
QuotientLimb(r, b, bit, d) ==
    IF bit < 0 THEN d
    ELSE IF BigCmp(BigMulSmall(b, d + 2^bit), r) <= 0
       THEN QuotientLimb(r, b, bit - 1, d + 2^bit)
    ELSE QuotientLimb(r, b, bit - 1, d)

\* Quotient and remainder of r by b > 0 when r < b * Limb^j: long division,
\* one limb of the quotient at a time.
RECURSIVE BigDivFrom(_, _, _)
BigDivFrom(r, b, j) ==
    IF j = 0 THEN [q |-> <<>>, r |-> r]
    ELSE LET bj == BigShlLimbs(b, j - 1)
             d == QuotientLimb(r, bj, 14, 0)
             rest == BigDivFrom(BigSub(r, BigMulSmall(bj, d)), b, j - 1)
         IN  [q |-> rest.q \o <<d>>, r |-> rest.r]

NormQuotient(qr) == [q |-> BigNorm(qr.q), r |-> qr.r]

BigDivMod(a, b) ==
    NormQuotient(BigDivFrom(a, b, IF Len(a) < Len(b) THEN 0 ELSE Len(a) - Len(b) + 1))

\* The number of zero bits below the lowest one bit of a > 0.
RECURSIVE TrailingZeros(_, _)
TrailingZeros(a, i) ==
    IF a[i] = 0 THEN 15 + TrailingZeros(a, i + 1)
    ELSE CHOOSE k \in 0..14 : a[i] % 2^(k + 1) = 2^k

\* A double: (-1)^neg * m * 2^e, with m odd (or zero, with e = 0).
DoubleZero == [neg |-> FALSE, m |-> <<>>, e |-> 0]

DoubleOne == [neg |-> FALSE, m |-> <<1>>, e |-> 0]

DoubleOf(neg, m, e) ==
    IF m = <<>> THEN DoubleZero
    ELSE LET z == TrailingZeros(m, 1)
         IN  [neg |-> neg, m |-> BigShr(m, z), e |-> e + z]

\* The quotient q of a division, rounded to nearest, ties to even: twice is
\* -1, 0 or 1 as two remainders are below, equal to or above the divisor.
RoundTies(q, twice) ==
    [bits |-> BitLen(q),
     q |-> IF twice > 0 \/ (twice = 0 /\ q # <<>> /\ q[1] % 2 = 1)
              THEN BigAdd(q, <<1>>)
              ELSE q]

RoundDivMod(qr, d) == RoundTies(qr.q, BigCmp(BigShl(qr.r, 1), d))

ShiftedNum(num, k) == IF k >= 0 THEN BigShl(num, k) ELSE num

ShiftedDen(den, k) == IF k >= 0 THEN den ELSE BigShl(den, -k)

\* The quotient of num * 2^k by den, rounded to nearest, ties to even.
RoundedQuotient(num, den, k) ==
    RoundDivMod(BigDivMod(ShiftedNum(num, k), ShiftedDen(den, k)), ShiftedDen(den, k))

\* The shift that gives the quotient of num by den 53 or 54 bits.
QuotientShift(num, den) == 53 - (BitLen(num) - BitLen(den))

RoundRatioFirst(neg, num, den, e, k, first) ==
    IF first.bits <= 53
       THEN DoubleOf(neg, first.q, e - k)
       ELSE DoubleOf(neg, RoundedQuotient(num, den, k - 1).q, e - (k - 1))

\* The double nearest to (-1)^neg * (num / den) * 2^e, for num, den > 0.
RoundRatio(neg, num, den, e) ==
    RoundRatioFirst(neg, num, den, e, QuotientShift(num, den),
                    RoundedQuotient(num, den, QuotientShift(num, den)))

\* The double nearest to (-1)^neg * n * 10^e10, n a natural number:
\* what strconv.ParseFloat returns for a decimal numeral.  Zero keeps its
\* sign in the code; the sign of a zero changes no comparison below.
DoubleOfDecimal(neg, n, e10) ==
    IF n = <<>> THEN DoubleZero
    ELSE RoundRatio(neg,
                    IF e10 >= 0 THEN BigMul(n, BigPow10(e10)) ELSE n,
                    IF e10 >= 0 THEN <<1>> ELSE BigPow10(-e10),
                    0)

\* The significand of x at the lower of the exponents of x and y.
MinExp(x, y) == IF x.e < y.e THEN x.e ELSE y.e

Aligned(x, y) == BigShl(x.m, x.e - MinExp(x, y))

\* -1, 0 or 1 as the double x is below, equal to or above the double y.
DoubleCmp(x, y) ==
    IF x.m = <<>> /\ y.m = <<>> THEN 0
    ELSE IF x.neg # y.neg \/ x.m = <<>> \/ y.m = <<>>
       THEN (IF (x.m # <<>> /\ x.neg) \/ (x.m = <<>> /\ ~y.neg) THEN -1 ELSE 1)
    ELSE IF x.neg THEN BigCmp(Aligned(y, x), Aligned(x, y))
    ELSE BigCmp(Aligned(x, y), Aligned(y, x))

DoubleNeg(x) == IF x.m = <<>> THEN x ELSE [x EXCEPT !.neg = ~x.neg]

\* The sum of (-1)^xneg * mx and (-1)^yneg * my, times 2^e, as a double.
AddAligned(xneg, mx, yneg, my, e, cmp) ==
    IF xneg # yneg /\ cmp = 0 THEN DoubleZero
    ELSE RoundRatio(IF xneg = yneg \/ cmp > 0 THEN xneg ELSE yneg,
                    IF xneg = yneg THEN BigAdd(mx, my)
                    ELSE IF cmp > 0 THEN BigSub(mx, my)
                    ELSE BigSub(my, mx),
                    <<1>>, e)

\* float64 x + y, x - y and x / y (y # 0).
DoubleAdd(x, y) ==
    IF x.m = <<>> THEN y
    ELSE IF y.m = <<>> THEN x
    ELSE AddAligned(x.neg, Aligned(x, y), y.neg, Aligned(y, x), MinExp(x, y),
                    BigCmp(Aligned(x, y), Aligned(y, x)))

DoubleSub(x, y) == DoubleAdd(x, DoubleNeg(y))

DoubleDiv(x, y) ==
    IF x.m = <<>> THEN DoubleZero
    ELSE RoundRatio(x.neg # y.neg, x.m, y.m, x.e - y.e)

\* float64(n) for a natural number n below 2^53.
DoubleOfInt(n) == DoubleOf(FALSE, BigFromInt(n), 0)

\* float64 x * y.
DoubleMul(x, y) ==
    IF x.m = <<>> \/ y.m = <<>> THEN DoubleZero
    ELSE RoundRatio(x.neg # y.neg, BigMul(x.m, y.m), <<1>>, x.e + y.e)

RECURSIVE BigToInt(_)
BigToInt(a) == IF a = <<>> THEN 0 ELSE a[1] + Limb * BigToInt(Tail(a))

\* Go's conversion of a double x >= 0 below 2^31 to an integer type: the
\* fraction is discarded.
DoubleTrunc(x) ==
    IF x.e >= 0 THEN BigToInt(BigShl(x.m, x.e)) ELSE BigToInt(BigShr(x.m, -x.e))

\* colorful.D65 and colorful.D50: [3]float64{0.95047, 1.00000, 1.08883} and
\* [3]float64{0.96422, 1.00000, 0.82521}.
D65 ==
    <<DoubleOfDecimal(FALSE, BigFromInt(95047), -5), DoubleOne,
      DoubleOfDecimal(FALSE, BigFromInt(108883), -5)>>

D50 ==
    <<DoubleOfDecimal(FALSE, BigFromInt(96422), -5), DoubleOne,
      DoubleOfDecimal(FALSE, BigFromInt(82521), -5)>>

-----------------------------------------------------------------------------
(* The channel codec *)

\* Largest sample of a codec of the given bit depth.
MaxSample(depth) == IF depth = 8 THEN 255 ELSE 65535

\* Go's conversion of a non-negative integer value to uint16 / uint8.
Uint16(x) == x % 65536
Uint8(x) == x % 256

\* toGrayVal without the upper clamp (a mutant).
toGrayValNoUpperClamp(f) ==
    IF RatNeg(f) THEN 0 ELSE Uint16(FloorScale(f, 65535))

\* toGrayVal as the 8-bit snapshot has it: uint8(f * 255.0) (a mutant of the
\* final version).
toGrayValEightBit(f) ==
    IF RatNeg(f) THEN 0
    ELSE IF RatLt(RatInt(1), f) THEN 255
    ELSE Uint8(FloorScale(f, 255))

\* A toGrayVal that computes an 8-bit sample and fills the low byte with
\* zeros (a mutant).
toGrayValZeroFill(f) ==
    IF RatNeg(f) THEN 0
    ELSE IF RatLt(RatInt(1), f) THEN 65280
    ELSE Uint16(FloorScale(f, 255) * 256)

\* split.go toGrayVal, final version: float64 -> color.Gray16.
toGrayVal(f) ==
    IF RatNeg(f) THEN 0
    ELSE IF RatLt(RatInt(1), f) THEN 65535
    ELSE Uint16(FloorScale(f, 65535))

\* split.go toGrayVal, 8-bit snapshot: float64 -> color.Gray.
toGrayVal8(f) ==
    IF RatNeg(f) THEN 0
    ELSE IF RatLt(RatInt(1), f) THEN 255
    ELSE Uint8(FloorScale(f, 255))

toGrayValAt(depth, f) == IF depth = 8 THEN toGrayVal8(f) ELSE toGrayVal(f)

\* A scaling that stores the hue as it is, in degrees (a mutant).
NormalizeHueInDegrees(kind, v) ==
    CASE kind = "unit" -> v
      [] kind = "sym"  -> RatDivInt(RatAdd(v, RatInt(1)), 2)
      [] kind = "hue"  -> v

\* The affine map a Split* function applies to a channel scalar before
\* toGrayVal: v for a [0,1] channel, (v+1)/2 for a [-1,1] channel, v/360 for hue.
Normalize(kind, v) ==
    CASE kind = "unit" -> v
      [] kind = "sym"  -> RatDivInt(RatAdd(v, RatInt(1)), 2)
      [] kind = "hue"  -> RatDivInt(v, 360)

\* The decode with the two-sided channels read like [0,1] channels (a mutant).
DecodeAllUnit(kind, depth, s) == <<s, MaxSample(depth)>>

\* The map a Merge* function applies to a sample: s/max, s*2/max - 1, s*360/max.
Decode(kind, depth, s) ==
    CASE kind = "unit" -> Rat(s, MaxSample(depth))
      [] kind = "sym"  -> RatSub(Rat(s * 2, MaxSample(depth)), RatInt(1))
      [] kind = "hue"  -> Rat(s * 360, MaxSample(depth))

Encode(kind, depth, v) == toGrayValAt(depth, Normalize(kind, v))

-----------------------------------------------------------------------------
(* The idle values a specification gives to the variables it does not use *)

NoPixel == [t |-> "none", R |-> 0, G |-> 0, B |-> 0, A |-> 0]

CodecIdle ==
    /\ cPc = "idle" /\ cDepth = 16 /\ cKind = "unit" /\ cK = 0
    /\ cSample = 0 /\ cOut = <<0, 1>>

PixelIdle ==
    /\ xPc = "idle" /\ xModel = "rgb" /\ xAlpha = FALSE /\ xSrc = NoPixel
    /\ xFwd = <<>> /\ xBufs = <<>> /\ xClr = NoPixel /\ xMerged = NoPixel
    /\ xOut = NoPixel
    /\ xWhites = <<D65, D65>> /\ xBufs2 = <<>> /\ xOut2 = NoPixel

NoImage == [kind |-> "none", bnds |-> <<0, 0>>]

\* The zero value of Parameters.
ZeroParameters ==
    [InputNames |-> <<>>, OutputName |-> <<>>, OrigColorSpace |-> <<>>,
     ColorSpace |-> "", Split |-> FALSE, Alpha |-> FALSE,
     WhitePoint |-> <<DoubleZero, DoubleZero, DoubleZero>>]

CmdIdle ==
    /\ aSpace = <<>> /\ aSplit = FALSE /\ aMerge = FALSE /\ aOut = <<>>
    /\ aInputs = <<>> /\ aWhite = <<"D", "6", "5">>
    /\ mPc = "idle" /\ p = ZeroParameters /\ mImage = NoImage
    /\ mOuts = <<>> /\ mChannels = <<>> /\ mReads = <<>> /\ mWritten = <<>>
    /\ mFatal = ""

RowsIdle ==
    /\ rModel = "rgb" /\ rBnds = <<0, 0>> /\ rImg = <<>> /\ rSamples = <<>>
    /\ rMain = "idle"
    /\ rY = 0 /\ rWg = 0 /\ rW = <<>> /\ rGrays = <<>> /\ rLog = <<>>
    /\ rDone = <<>> /\ rResult = <<>>

ByteIdle == bPc = "idle" /\ bV = 0 /\ bSample = 0 /\ bHigh = 0

-----------------------------------------------------------------------------
(* SpecCodec: scalars on a grid through encode and decode *)

Depths == {8, 16}
Kinds == {"unit", "sym", "hue"}

\* Denominator of the grid of normalized values of a codec.
GridDen(depth) == MaxSample(depth) * SubSteps

\* Width, lowest value of a declared range.
RangeWidth(kind) == CASE kind = "unit" -> 1 [] kind = "sym" -> 2 [] kind = "hue" -> 360
RangeMin(kind) == CASE kind = "unit" -> 0 [] kind = "sym" -> -1 [] kind = "hue" -> 0

\* The scalar with grid index k: min + width * k / GridDen.
ScalarOf(kind, depth, k) ==
    RatAdd(RatInt(RangeMin(kind)), Rat(RangeWidth(kind) * k, GridDen(depth)))

\* One quantization step of a channel: the width of its range over max.
QuantStep(kind, depth) == Rat(RangeWidth(kind), MaxSample(depth))

\* The samples around which scalars are taken: three windows.
WindowLow(depth) == 0..CodecWindow
WindowMid(depth) ==
    ((MaxSample(depth) \div 2) - CodecWindow)..((MaxSample(depth) \div 2) + 1 + CodecWindow)
WindowHigh(depth) == (MaxSample(depth) - CodecWindow)..MaxSample(depth)

\* Grid indices: every grid point of the windows, and a few outside the range.
GridIndices(depth) ==
    LET inside == { s * SubSteps + j : s \in (WindowLow(depth) \cup WindowMid(depth)
                                                \cup WindowHigh(depth)) \ {MaxSample(depth)},
                                       j \in 0..(SubSteps - 1) }
    IN  inside \cup {GridDen(depth)}
               \cup { -j : j \in 1..OverRange }
               \cup { GridDen(depth) + j : j \in 1..OverRange }

InRange(depth, k) == 0 <= k /\ k <= GridDen(depth)

CodecInit ==
    /\ cPc = "input"
    /\ cDepth \in Depths
    /\ cKind \in Kinds
    /\ cK \in GridIndices(cDepth)
    /\ cSample = 0
    /\ cOut = <<0, 1>>
    /\ PixelIdle
    /\ CmdIdle
    /\ RowsIdle
    /\ ByteIdle

CodecEncode ==
    /\ cPc = "input"
    /\ cSample' = Encode(cKind, cDepth, ScalarOf(cKind, cDepth, cK))
    /\ cPc' = "encoded"
    /\ UNCHANGED <<cDepth, cKind, cK, cOut, pixelVars, cmdVars, rowsVars, byteVars>>

CodecDecode ==
    /\ cPc = "encoded"
    /\ cOut' = Decode(cKind, cDepth, cSample)
    /\ cPc' = "decoded"
    /\ UNCHANGED <<cDepth, cKind, cK, cSample, pixelVars, cmdVars, rowsVars, byteVars>>

CodecNext == CodecEncode \/ CodecDecode

SpecCodec == CodecInit /\ [][CodecNext]_vars

-----------------------------------------------------------------------------
(* Colors: Go's image/color and go-colorful, as the program uses them *)

\* color.NRGBA (8-bit), color.NRGBA64 (16-bit): non-premultiplied colors.
NRGBA(r, g, b, a) == [t |-> "NRGBA", R |-> r, G |-> g, B |-> b, A |-> a]
NRGBA64(r, g, b, a) == [t |-> "NRGBA64", R |-> r, G |-> g, B |-> b, A |-> a]

\* colorful.Color: R, G, B are float64, here rationals.
Color(r, g, b) == [t |-> "Color", R |-> r, G |-> g, B |-> b, A |-> 0]

\* color.Color.RGBA(): the alpha-premultiplied 16-bit <<r, g, b, a>> of a color.
\* colorful.Color.RGBA() is uint32(c*65535.0 + 0.5) with a = 0xffff.
RGBAOf(c) ==
    CASE c.t = "NRGBA" ->
            <<((c.R * 257) * c.A) \div 255, ((c.G * 257) * c.A) \div 255,
              ((c.B * 257) * c.A) \div 255, c.A * 257>>
      [] c.t = "NRGBA64" ->
            <<FloorMulDiv(c.R, c.A, 65535), FloorMulDiv(c.G, c.A, 65535),
              FloorMulDiv(c.B, c.A, 65535), c.A>>
      [] c.t = "Color" ->
            <<RoundScale(c.R, 65535), RoundScale(c.G, 65535),
              RoundScale(c.B, 65535), 65535>>

\* colorful.MakeColor: a color.Color to a colorful.Color, un-premultiplying; a
\* fully transparent color gives black (and an error splitAny ignores).
MakeColor(c) ==
    LET q == RGBAOf(c)
    IN  IF q[4] = 0 THEN Color(RatInt(0), RatInt(0), RatInt(0))
        ELSE Color(Rat(FloorMulDiv(q[1], 65535, q[4]), 65535),
                   Rat(FloorMulDiv(q[2], 65535, q[4]), 65535),
                   Rat(FloorMulDiv(q[3], 65535, q[4]), 65535))

\* colorful.Color.RGB255: uint8(c*255.0 + 0.5) of each component.
RGB255(c) ==
    <<Uint8(RoundScale(c.R, 255)), Uint8(RoundScale(c.G, 255)),
      Uint8(RoundScale(c.B, 255))>>

\* A clamp that forgets the upper limit (a mutant).
clamp01LowOnly(v) == IF RatNeg(v) THEN RatInt(0) ELSE v

\* colorful's clamp01: math.Max(0.0, math.Min(v, 1.0)).
clamp01(v) ==
    IF RatNeg(v) THEN RatInt(0)
    ELSE IF RatLt(RatInt(1), v) THEN RatInt(1)
    ELSE v

\* colorful.Color.Clamped.
Clamped(c) == Color(clamp01(c.R), clamp01(c.G), clamp01(c.B))

\* An NRGBA conversion that stores every color half transparent (a mutant).
nrgbaModelHalfAlpha(c) ==
    NRGBA(Uint8(RGBAOf(c)[1] \div 256), Uint8(RGBAOf(c)[2] \div 256),
          Uint8(RGBAOf(c)[3] \div 256), 127)

\* color.NRGBAModel.Convert, which image.NRGBA.Set applies to the color it stores.
nrgbaModel(c) ==
    IF c.t = "NRGBA" THEN c
    ELSE LET q == RGBAOf(c)
         IN  IF q[4] = 65535
                THEN NRGBA(Uint8(q[1] \div 256), Uint8(q[2] \div 256),
                           Uint8(q[3] \div 256), 255)
             ELSE IF q[4] = 0 THEN NRGBA(0, 0, 0, 0)
             ELSE NRGBA(Uint8(FloorMulDiv(q[1], 65535, q[4]) \div 256),
                        Uint8(FloorMulDiv(q[2], 65535, q[4]) \div 256),
                        Uint8(FloorMulDiv(q[3], 65535, q[4]) \div 256),
                        Uint8(q[4] \div 256))

\* color.NRGBA64Model.Convert, which image.NRGBA64.Set applies too.
nrgba64Model(c) ==
    IF c.t = "NRGBA64" THEN c
    ELSE LET q == RGBAOf(c)
         IN  IF q[4] = 65535
                THEN NRGBA64(Uint16(q[1]), Uint16(q[2]), Uint16(q[3]), 65535)
             ELSE IF q[4] = 0 THEN NRGBA64(0, 0, 0, 0)
             ELSE NRGBA64(Uint16(FloorMulDiv(q[1], 65535, q[4])),
                          Uint16(FloorMulDiv(q[2], 65535, q[4])),
                          Uint16(FloorMulDiv(q[3], 65535, q[4])),
                          Uint16(q[4]))

\* color.RGBToCMYK.
RGBToCMYK(r, g, b) ==
    LET w0 == IF r < g THEN g ELSE r
        w  == IF w0 < b THEN b ELSE w0
    IN  IF w = 0 THEN <<0, 0, 0, 255>>
        ELSE <<Uint8(((w - r) * 255) \div w), Uint8(((w - g) * 255) \div w),
               Uint8(((w - b) * 255) \div w), Uint8(255 - w)>>

\* color.CMYKToRGB.
CMYKToRGB(c, m, y, k) ==
    LET w == 65535 - k * 257
    IN  <<Uint8(FloorMulDiv(65535 - c * 257, w, 65535) \div 256),
          Uint8(FloorMulDiv(65535 - m * 257, w, 65535) \div 256),
          Uint8(FloorMulDiv(65535 - y * 257, w, 65535) \div 256)>>

\* The tail of color.RGBToYCbCr / YCbCrToRGB: v >> 16 when v fits 24 bits, else
\* ^(v >> 31), converted to uint8: 0 for a negative v, 255 for a too large one.
Shift16Saturate(v) ==
    IF v < 0 THEN 0 ELSE IF v >= 16777216 THEN 255 ELSE v \div 65536

\* color.RGBToYCbCr.
RGBToYCbCr(r, g, b) ==
    <<Uint8((19595 * r + 38470 * g + 7471 * b + 32768) \div 65536),
      Shift16Saturate(32768 * b - 11056 * r - 21712 * g + 8421376),
      Shift16Saturate(32768 * r - 27440 * g - 5328 * b + 8421376)>>

\* color.YCbCrToRGB.
YCbCrToRGB(y, cb, cr) ==
    LET yy1 == y * 65793
        cb1 == cb - 128
        cr1 == cr - 128
    IN  <<Shift16Saturate(yy1 + 91881 * cr1),
          Shift16Saturate(yy1 - 22554 * cb1 - 46802 * cr1),
          Shift16Saturate(yy1 + 116130 * cb1)>>

\* colorful's linearize: v/12.92 up to 0.04045; beyond it the power law
\* ((v+0.055)/1.055)^2.4, an irrational value the library supplies (lib).
linearize(v, lib) ==
    IF RatLeq(v, Rat(4045, 100000)) THEN RatDiv(v, Rat(1292, 100)) ELSE lib

\* colorful's delinearize: 12.92*v up to 0.0031308; beyond it the power law
\* 1.055*v^(1/2.4) - 0.055, supplied by the library (lib).
delinearize(v, lib) ==
    IF RatLeq(v, Rat(31308, 10000000)) THEN RatMul(Rat(1292, 100), v) ELSE lib

-----------------------------------------------------------------------------
(* The color models *)

\* Strings the program inspects character by character are sequences of
\* one-character strings; Join gives the string itself.
RECURSIVE Join(_)
Join(cs) == IF cs = <<>> THEN "" ELSE Head(cs) \o Join(Tail(cs))

LowerCase ==
    <<"a", "b", "c", "d", "e", "f", "g", "h", "i", "j", "k", "l", "m",
      "n", "o", "p", "q", "r", "s", "t", "u", "v", "w", "x", "y", "z">>

UpperCase ==
    <<"A", "B", "C", "D", "E", "F", "G", "H", "I", "J", "K", "L", "M",
      "N", "O", "P", "Q", "R", "S", "T", "U", "V", "W", "X", "Y", "Z">>

LowerLetters == { LowerCase[i] : i \in 1..26 }
UpperLetters == { UpperCase[i] : i \in 1..26 }
LowerOf == [c \in UpperLetters |-> LowerCase[CHOOSE i \in 1..26 : UpperCase[i] = c]]
UpperOf == [c \in LowerLetters |-> UpperCase[CHOOSE i \in 1..26 : LowerCase[i] = c]]

\* unicode.IsLetter, unicode.ToLower and unicode.ToUpper on the characters used.
IsLetter(c) == c \in LowerLetters \/ c \in UpperLetters

ToLower(c) == IF c \in UpperLetters THEN LowerOf[c] ELSE c

ToUpper(c) == IF c \in LowerLetters THEN UpperOf[c] ELSE c

\* colorSpaceList, in the order of the source.
colorSpaceList ==
    << <<"c", "m", "y", "k">>, <<"h", "c", "l">>, <<"h", "s", "l">>,
       <<"h", "s", "l", "u", "v">>, <<"l", "a", "b">>,
       <<"l", "i", "n", "r", "g", "b">>, <<"l", "u", "v">>, <<"r", "g", "b">>,
       <<"s", "r", "g", "b">>, <<"x", "y", "y">>, <<"x", "y", "z">>,
       <<"y", "c", "b", "c", "r">> >>

\* The names of colorSpaceList as strings: the values of p.ColorSpace.
colorSpaceNames == { Join(colorSpaceList[i]) : i \in 1..Len(colorSpaceList) }

\* The table of channel names per model, with the name lum for the luminance
\* channel of xyy.
NamesWith(model, lum) ==
    CASE model \in {"rgb", "srgb", "linrgb"} -> <<"R", "G", "B">>
      [] model = "hcl" -> <<"H", "C", "L">>
      [] model \in {"hsl", "hsluv"} -> <<"H", "S", "L">>
      [] model = "lab" -> <<"L", "a", "b">>
      [] model = "luv" -> <<"L", "u", "v">>
      [] model = "xyy" -> <<"x", "y", lum>>
      [] model = "xyz" -> <<"X", "Y", "Z">>
      [] model = "ycbcr" -> <<"Y", "Cb", "Cr">>
      [] model = "cmyk" -> <<"C", "M", "Y", "K">>

\* The names with the luminance channel of xyy called "Y" (a mutant).
ChannelNamesPlainY(model) == NamesWith(model, "Y")

\* The channel names each Split* function passes to splitAny.
ChannelNames(model) ==
    CASE model = "cmyk" -> <<"C", "M", "Y", "K">>
      [] model = "hcl" -> <<"H", "C", "L">>
      [] model \in {"hsl", "hsluv"} -> <<"H", "S", "L">>
      [] model = "lab" -> <<"L", "a", "b">>
      [] model = "luv" -> <<"L", "u", "v">>
      [] model \in {"linrgb", "rgb", "srgb"} -> <<"R", "G", "B">>
      [] model = "xyy" -> <<"x", "y", "YY">>
      [] model = "xyz" -> <<"X", "Y", "Z">>
      [] model = "ycbcr" -> <<"Y", "Cb", "Cr">>

\* How each Split* function scales its channels, and each Merge* scales back.
ChannelKinds(model) ==
    CASE model \in {"hcl", "hsl", "hsluv"} -> <<"hue", "unit", "unit">>
      [] model \in {"lab", "luv"} -> <<"unit", "sym", "sym">>
      [] model = "cmyk" -> <<"unit", "unit", "unit", "unit">>
      [] OTHER -> <<"unit", "unit", "unit">>

\* The models whose conversions go-colorful computes with cube roots, powers and
\* trigonometry: the library's results are inputs of the model.
LibraryModels == {"hcl", "hsl", "hsluv", "lab", "luv", "xyy", "xyz"}

\* The function each Split* hands to splitAny: the values given to toGrayVal
\* for one colorful.Color.  lib is what the library returned (LibraryModels,
\* in the library's units) or supplies beyond the linear segment (linrgb).
SplitFn(model, clr, lib) ==
    CASE model = "rgb" ->
            LET c == RGB255(clr)
            IN  <<Rat(c[1], 255), Rat(c[2], 255), Rat(c[3], 255)>>
      [] model = "srgb" -> <<clr.R, clr.G, clr.B>>
      [] model = "linrgb" ->
            <<linearize(clr.R, lib[1]), linearize(clr.G, lib[2]),
              linearize(clr.B, lib[3])>>
      [] model = "cmyk" ->
            LET c == RGB255(clr)
                k == RGBToCMYK(c[1], c[2], c[3])
            IN  <<Rat(k[1], 255), Rat(k[2], 255), Rat(k[3], 255), Rat(k[4], 255)>>
      [] model = "ycbcr" ->
            LET c == RGB255(clr)
                k == RGBToYCbCr(c[1], c[2], c[3])
            IN  <<Rat(k[1], 255), Rat(k[2], 255), Rat(k[3], 255)>>
      [] OTHER ->
            [i \in 1..3 |-> Normalize(ChannelKinds(model)[i], lib[i])]

\* The samples splitAny stores for one pixel of the image, one per channel.
SplitPixel(model, px, lib) ==
    LET f == SplitFn(model, MakeColor(px), lib)
    IN  [i \in 1..Len(f) |-> toGrayVal(f[i])]

\* An ExtractAlpha that stores full opacity for every pixel (a mutant).
ExtractAlphaOpaque(px) == 65535

\* The sample ExtractAlpha stores for one pixel.
ExtractAlphaPixel(px) == nrgba64Model(px).A

\* The channel scalars a Merge* of a library model decodes from its samples.
DecodedScalars(model, s) ==
    [i \in 1..3 |-> Decode(ChannelKinds(model)[i], 16, s[i])]

\* The colorful.Color a Merge* function builds before clamping (none for rgb,
\* cmyk and ycbcr, which build a color.NRGBA64 / color.NRGBA directly).
MergeColor(model, s, lib) ==
    CASE model = "srgb" ->
            Color(Rat(s[1], 65535), Rat(s[2], 65535), Rat(s[3], 65535))
      [] model = "linrgb" ->
            Color(delinearize(Rat(s[1], 65535), lib[1]),
                  delinearize(Rat(s[2], 65535), lib[2]),
                  delinearize(Rat(s[3], 65535), lib[3]))
      [] OTHER -> Color(lib[1], lib[2], lib[3])

\* The pixel a Merge* function stores in the merged image for the samples s of
\* its channels: merged.Set(x, y, clr).
MergePixel(model, s, lib) ==
    CASE model = "rgb" -> nrgba64Model(NRGBA64(s[1], s[2], s[3], 65535))
      [] model = "srgb" -> nrgbaModel(MergeColor(model, s, lib))
      [] model = "cmyk" ->
            LET c == CMYKToRGB(Uint8(s[1] \div 256), Uint8(s[2] \div 256),
                               Uint8(s[3] \div 256), Uint8(s[4] \div 256))
            IN  nrgbaModel(NRGBA(c[1], c[2], c[3], 255))
      [] model = "ycbcr" ->
            LET c == YCbCrToRGB(Uint8(s[1] \div 256), Uint8(s[2] \div 256),
                                Uint8(s[3] \div 256))
            IN  nrgbaModel(NRGBA(c[1], c[2], c[3], 255))
      [] OTHER -> nrgbaModel(Clamped(MergeColor(model, s, lib)))

\* An AddAlpha that stores the color premultiplied by the alpha sample (a
\* mutant).
AddAlphaPremultiplied(px, alpha) ==
    NRGBA64(FloorMulDiv(nrgba64Model(px).R, alpha, 65535),
            FloorMulDiv(nrgba64Model(px).G, alpha, 65535),
            FloorMulDiv(nrgba64Model(px).B, alpha, 65535), alpha)

\* An AddAlpha that converts the pixel but never stores the alpha sample.
AddAlphaKeepOpaque(px, alpha) == nrgba64Model(px)

\* The pixel AddAlpha stores: the merged pixel, non-premultiplied, with the
\* alpha buffer's sample as its alpha.
AddAlphaPixel(px, alpha) ==
    nrgba64Model([nrgba64Model(px) EXCEPT !.A = alpha])

\* A count that forgets the fourth channel of cmyk (a mutant).
channelCountThree(model) == 3

\* Number of color channels of a model (MergeChannels: 4 for cmyk, else 3).
channelCount(model) == IF model = "cmyk" THEN 4 ELSE 3

-----------------------------------------------------------------------------
(* SpecPixel: one pixel of an image through SplitImage, the channel files    *)
(* it writes, and MergeChannels; or hand-made channel files through          *)
(* MergeChannels alone.                                                      *)

\* 8-bit levels v whose sRGB value v/255 lies on the linear segment of the
\* transfer function (v/255 <= 0.04045), where linrgb is computed exactly.
DarkLevels == 0..10

BrightLevels == {127, 128, 254, 255}

\* The pixels of source images.  For linrgb only dark pixels are taken, and
\* for the library models the library's answer, not the pixel, is the input.
SourcePixels(model) ==
    IF model \in LibraryModels
       THEN { NRGBA(r, 0, 10, a) : r \in {0, 255}, a \in {0, 128, 255} }
            \cup { NRGBA(0, 0, 0, 0) }
       ELSE LET levels == IF model = "linrgb" THEN DarkLevels
                          ELSE DarkLevels \cup BrightLevels
                deep   == IF model \in {"rgb", "srgb"}
                             THEN { NRGBA64(r, 0, 65535, a) :
                                       r \in {128, 255, 258, 65535},
                                       a \in {32768, 65535} }
                             ELSE {}
            IN  { NRGBA(r, g, b, a) : r \in levels, g \in {0, 5}, b \in {0, 10},
                                      a \in {0, 1, 128, 255} } \cup deep

\* What go-colorful may return to a Split* function of a library model, in the
\* library's units, before the function scales it: values inside and outside
\* the range the scaling expects.
LibScalars(kind) ==
    CASE kind = "unit" -> {Rat(-1, 10), Rat(1, 3), Rat(11, 10)}
      [] kind = "sym"  -> {Rat(-11, 10), Rat(1, 3), Rat(1, 1)}
      [] kind = "hue"  -> {Rat(0, 1), Rat(1799, 10), Rat(360, 1)}

NoLib == <<RatInt(0), RatInt(0), RatInt(0)>>

LibFwdChoices(model) ==
    IF model \in LibraryModels
       THEN { <<a, b, c>> : a \in LibScalars(ChannelKinds(model)[1]),
                            b \in LibScalars(ChannelKinds(model)[2]),
                            c \in LibScalars(ChannelKinds(model)[3]) }
       ELSE {NoLib}

\* What clr.HclWhiteRef(wref) returns for black: X, Y and Z are 0, so a and b
\* are 0, LabToHcl takes the branch h = 0.0, c is 0 and l = 1.16*(4.0/29.0) -
\* 0.16, which is 0 up to one rounding (-2.8e-17 in float64, or the fused
\* multiply-add's result).
Negligible == Rat(1, 2^30)

HclOfBlack ==
    { <<RatInt(0), RatInt(0), l>> :
         l \in { RatSub(RatInt(0), Negligible), RatInt(0), Negligible } }

\* The library's answers to the Split* function of the model for the color.
LibFwdAnswers(model, clr) ==
    IF model = "hcl" /\ clr = Color(RatInt(0), RatInt(0), RatInt(0))
       THEN HclOfBlack
       ELSE LibFwdChoices(model)

\* What go-colorful may return to a Merge* function: color components inside
\* and outside [0,1] for the library models, and a value of the power segment,
\* inside (0.0031308, 1], for linrgb.
LibInvChoices(model) ==
    IF model \in LibraryModels
       THEN { <<a, b, c>> : a \in {Rat(-1, 2), Rat(1, 3), Rat(3, 2)},
                            b \in {Rat(-1, 2), Rat(1, 3), Rat(3, 2)},
                            c \in {Rat(-1, 2), Rat(1, 3), Rat(3, 2)} }
    ELSE IF model = "linrgb"
       THEN { <<a, a, b>> : a \in {Rat(1, 3), Rat(1, 1)}, b \in {Rat(1, 3), Rat(1, 1)} }
    ELSE {NoLib}

\* A dispatch that hands p.WhitePoint to the functions of xyz too (a mutant).
WhiteAwareWithXYZ == {"hcl", "lab", "luv", "xyz"}

\* The models whose Split* and Merge* functions are handed p.WhitePoint.
WhiteAwareModels == {"hcl", "lab", "luv"}

\* go-colorful is a function of its arguments: called a second time, in a
\* run with another white point, it returns the answer lib of the first call
\* unless the white point is one of its arguments, and then the same answer
\* or another one.
LibAgain(model, whites, lib, choices) ==
    IF model \in WhiteAwareModels /\ whites[1] # whites[2]
       THEN {lib, CHOOSE other \in choices : other # lib}
       ELSE {lib}

\* The white points of the two runs: --white left out or given in both, and
\* D65 in one run, D50 in the other.
WhitePairs == { <<D65, D65>>, <<D65, D50>> }

\* The samples of hand-made channel files: lowest, mid-gray, highest.
FileSamples == {0, 32767, 65535}

HandMadeBufs(n) == [1..n -> FileSamples]

\* The pixel ReadGrayscaleImage stores in the *image.Gray16 it returns for a
\* pixel of a 16-bit grayscale file: color.Gray16Model leaves a Gray16 as it is.
ReadGrayscalePixel(y) == y

PixelInit ==
    /\ xModel \in colorSpaceNames
    /\ xAlpha \in BOOLEAN
    /\ \/ /\ xPc = "source"
          /\ xSrc \in SourcePixels(xModel)
          /\ xBufs = <<>>
       \/ /\ xPc = "files"
          /\ xSrc = NoPixel
          /\ xBufs \in HandMadeBufs(channelCount(xModel) + (IF xAlpha THEN 1 ELSE 0))
    /\ xFwd = <<>>
    /\ xClr = NoPixel
    /\ xMerged = NoPixel
    /\ xOut = NoPixel
    /\ xWhites \in WhitePairs
    /\ xBufs2 = xBufs
    /\ xOut2 = NoPixel
    /\ CodecIdle
    /\ CmdIdle
    /\ RowsIdle
    /\ ByteIdle

\* SplitImage on the pixel: performImageSplit, then ExtractAlpha if p.Alpha;
\* and the same in a second run on the same image with the second white point.
PixelSplit ==
    /\ xPc = "source"
    /\ \E lib \in LibFwdAnswers(xModel, MakeColor(xSrc)) :
          /\ xFwd' = SplitFn(xModel, MakeColor(xSrc), lib)
          /\ xBufs' = SplitPixel(xModel, xSrc, lib)
                        \o (IF xAlpha THEN <<ExtractAlphaPixel(xSrc)>> ELSE <<>>)
          /\ \E lib2 \in LibAgain(xModel, xWhites, lib,
                                   LibFwdAnswers(xModel, MakeColor(xSrc))) :
                xBufs2' = SplitPixel(xModel, xSrc, lib2)
                            \o (IF xAlpha THEN <<ExtractAlphaPixel(xSrc)>> ELSE <<>>)
    /\ xPc' = "split"
    /\ UNCHANGED <<xModel, xAlpha, xSrc, xClr, xMerged, xOut, xWhites, xOut2,
                   codecVars, cmdVars, rowsVars, byteVars>>

\* WritePNG of every channel (16-bit grayscale, lossless), and a later run's
\* ReadGrayscaleImage of the files.
PixelWriteRead ==
    /\ xPc = "split"
    /\ xBufs' = [i \in 1..Len(xBufs) |-> ReadGrayscalePixel(xBufs[i])]
    /\ xBufs2' = [i \in 1..Len(xBufs2) |-> ReadGrayscalePixel(xBufs2[i])]
    /\ xPc' = "files"
    /\ UNCHANGED <<xModel, xAlpha, xSrc, xFwd, xClr, xMerged, xOut, xWhites, xOut2,
                   codecVars, cmdVars, rowsVars, byteVars>>

\* MergeChannels on the pixel: the Merge* function of the model on the color
\* channels, then AddAlpha with the last channel if p.Alpha; and the same in
\* a second run on the same channel files with the second white point.
PixelMerge ==
    /\ xPc = "files"
    /\ \E lib \in LibInvChoices(xModel) :
          /\ xClr' = IF xModel \in {"rgb", "cmyk", "ycbcr"} THEN NoPixel
                     ELSE MergeColor(xModel, xBufs, lib)
          /\ xMerged' = MergePixel(xModel, xBufs, lib)
          /\ xOut' = IF xAlpha
                        THEN AddAlphaPixel(MergePixel(xModel, xBufs, lib),
                                           xBufs[Len(xBufs)])
                        ELSE MergePixel(xModel, xBufs, lib)
          /\ \E lib2 \in LibAgain(xModel, xWhites, lib, LibInvChoices(xModel)) :
                xOut2' = IF xAlpha
                            THEN AddAlphaPixel(MergePixel(xModel, xBufs, lib2),
                                               xBufs[Len(xBufs)])
                            ELSE MergePixel(xModel, xBufs, lib2)
    /\ xPc' = "merged"
    /\ UNCHANGED <<xModel, xAlpha, xSrc, xFwd, xBufs, xWhites, xBufs2,
                   codecVars, cmdVars, rowsVars, byteVars>>

PixelNext == PixelSplit \/ PixelWriteRead \/ PixelMerge

SpecPixel == PixelInit /\ [][PixelNext]_vars

-----------------------------------------------------------------------------
(* SpecRows: one call of splitAny.  The caller starts one goroutine per row, *)
(* waits for the WaitGroup and returns the buffers; every statement of the  *)
(* caller and every grays[i].Set of a goroutine is a step of its own, so    *)
(* the behaviors are the interleavings the Go scheduler can produce.        *)

\* The most rows of an image.
MaxRows == 3

\* The widths of the images.
Widths == {0, 1, 2}

\* The models whose Split* function needs no call of go-colorful's
\* conversions: three channels and four.
RowModels == {"rgb", "cmyk"}

Locations(bnds) == (0..(bnds[1] - 1)) \X (0..(bnds[2] - 1))

\* The source images: one with a different pixel at every location, one of
\* a single color.
SourceImages(bnds) ==
    { [loc \in Locations(bnds) |-> NRGBA(loc[1], loc[2], 10, 255)],
      [loc \in Locations(bnds) |-> NRGBA(3, 2, 1, 255)] }

\* allocGrays: n images of the bounds, every sample zero.
allocGrays(bnds, n) == [i \in 1..n |-> [loc \in Locations(bnds) |-> 0]]

\* A goroutine that writes the row above its own (a mutant).
SetLocationRowAbove(x, y) == <<x, IF y > 0 THEN y - 1 ELSE 0>>

\* A goroutine that writes the top row whatever its own row (a mutant).
SetLocationTopRow(x, y) == <<x, 0>>

\* The location the goroutine of row y writes at column x: Set(x, y, ...).
SetLocation(x, y) == <<x, y>>

\* (*image.Gray16).Set: nothing is stored outside the bounds.
Gray16Set(g, loc, v) == IF loc \in DOMAIN g THEN [g EXCEPT ![loc] = v] ELSE g

\* The samples the goroutine derives from the pixel at <<x, y>>: toGrayVal of
\* each value of fn(colorful.MakeColor(img.At(x, y))).  fn is a pure function
\* and the image is only read, so the samples of every pixel are fixed when
\* splitAny is called: rSamples holds them.
RowSamples(model, img, x, y) == SplitPixel(model, img[<<x, y>>], NoLib)

\* A wait that returns at once (a mutant).
WaitGroupNoWait(n) == TRUE

\* A wait for a counter below zero (a mutant).
WaitGroupBelowZero(n) == n < 0

\* wg.Wait() returns when the counter is zero.
WaitGroupZero(n) == n = 0

NoWorker == [pc |-> "none", x |-> 0, i |-> 1]

Rows == 0..(MaxRows - 1)

RowsInit ==
    /\ rModel \in RowModels
    /\ rBnds \in Widths \X (0..MaxRows)
    /\ rImg \in SourceImages(rBnds)
    /\ rSamples = [loc \in Locations(rBnds) |->
                      RowSamples(rModel, rImg, loc[1], loc[2])]
    /\ rMain = "spawn"
    /\ rY = 0
    /\ rWg = 0
    /\ rW = [y \in Rows |-> NoWorker]
    /\ rGrays = allocGrays(rBnds, Len(ChannelNames(rModel)))
    /\ rLog = [i \in 1..Len(ChannelNames(rModel)) |->
                  [loc \in Locations(rBnds) |-> <<>>]]
    /\ rDone = <<>>
    /\ rResult = <<>>
    /\ CodecIdle
    /\ PixelIdle
    /\ CmdIdle
    /\ ByteIdle

\* The caller, one turn of its loop: wg.Add(1), go func(y int) {...}(y).
RowsSpawn ==
    /\ rMain = "spawn"
    /\ rY < rBnds[2]
    /\ rWg' = rWg + 1
    /\ rW' = [rW EXCEPT ![rY] = [pc |-> "run", x |-> 0, i |-> 1]]
    /\ rY' = rY + 1
    /\ UNCHANGED <<rModel, rBnds, rImg, rSamples, rMain, rGrays, rLog, rDone,
                   rResult,
                   codecVars, pixelVars, cmdVars,
                   byteVars>>

\* The goroutine of row y: grays[i].Set(x, y, toGrayVal(f)), and the steps of
\* its two loops up to the next Set.
RowsSet(y) ==
    /\ rW[y].pc = "run"
    /\ rW[y].x < rBnds[1]
    /\ \E s \in {rSamples[<<rW[y].x, y>>]} :
          /\ rGrays' = [rGrays EXCEPT ![rW[y].i] =
                           Gray16Set(@, SetLocation(rW[y].x, y), s[rW[y].i])]
          /\ rLog' = [rLog EXCEPT ![rW[y].i] =
                         IF SetLocation(rW[y].x, y) \in DOMAIN @
                            THEN [@ EXCEPT ![SetLocation(rW[y].x, y)] = Append(@, y)]
                            ELSE @]
          /\ rW' = [rW EXCEPT ![y] =
                       IF rW[y].i < Len(s)
                          THEN [@ EXCEPT !.i = @ + 1]
                          ELSE [@ EXCEPT !.x = @ + 1, !.i = 1]]
    /\ UNCHANGED <<rModel, rBnds, rImg, rSamples, rMain, rY, rWg, rDone,
                   rResult,
                   codecVars, pixelVars, cmdVars,
                   byteVars>>

\* The goroutine of row y leaves its loop: the deferred wg.Done().
RowsDone(y) ==
    /\ rW[y].pc = "run"
    /\ rW[y].x >= rBnds[1]
    /\ rWg' = rWg - 1
    /\ rDone' = Append(rDone, y)
    /\ rW' = [rW EXCEPT ![y].pc = "exit"]
    /\ UNCHANGED <<rModel, rBnds, rImg, rSamples, rMain, rY, rGrays, rLog,
                   rResult,
                   codecVars, pixelVars, cmdVars,
                   byteVars>>

\* The caller after its loop: wg.Wait().
RowsWait ==
    /\ rMain = "spawn"
    /\ rY >= rBnds[2]
    /\ WaitGroupZero(rWg)
    /\ rMain' = "result"
    /\ UNCHANGED <<rModel, rBnds, rImg, rSamples, rY, rWg, rW, rGrays, rLog,
                   rDone, rResult,
                   codecVars, pixelVars, cmdVars,
                   byteVars>>

\* The caller builds result from names and grays, and returns it; Image is
\* the pointer grays[i], here the index of the buffer.
RowsReturn ==
    /\ rMain = "result"
    /\ rResult' = [i \in 1..Len(ChannelNames(rModel)) |->
                      [Name |-> ChannelNames(rModel)[i], Image |-> i]]
    /\ rMain' = "returned"
    /\ UNCHANGED <<rModel, rBnds, rImg, rSamples, rY, rWg, rW, rGrays, rLog,
                   rDone,
                   codecVars, pixelVars, cmdVars,
                   byteVars>>

RowsWorker(y) == RowsSet(y) \/ RowsDone(y)

RowsMain == RowsSpawn \/ RowsWait \/ RowsReturn

RowsNext == RowsMain \/ \E y \in Rows : RowsWorker(y)

SpecRows == RowsInit /\ [][RowsNext]_vars

\* The Go scheduler runs every goroutine that can run, and the caller.
SpecRowsFair ==
    /\ RowsInit /\ [][RowsNext]_vars
    /\ WF_vars(RowsMain)
    /\ \A y \in Rows : WF_vars(RowsWorker(y))

-----------------------------------------------------------------------------
(* SpecByte: one 8-bit output of image/color's RGBToCMYK or RGBToYCbCr       *)
(* through SplitCMYK / SplitYCbCr and toGrayVal, in float64 bit for bit, and *)
(* back through the shift of MergeCMYK / MergeYCbCr.                         *)

\* The values of a uint8.
Uint8Values == 0..255

\* A Split* that divides by 256.0 (a mutant).
ByteFractionOf256(v) == DoubleDiv(DoubleOfInt(v), DoubleOfInt(256))

\* SplitCMYK, SplitYCbCr: float64(ci) / 255.0.
ByteFraction(v) == DoubleDiv(DoubleOfInt(v), DoubleOfInt(255))

\* split.go toGrayVal on a double: uint16(f * 65535.0) between the clamps.
toGrayValFloat64(f) ==
    IF DoubleCmp(f, DoubleZero) < 0 THEN 0
    ELSE IF DoubleCmp(f, DoubleOne) > 0 THEN 65535
    ELSE Uint16(DoubleTrunc(DoubleMul(f, DoubleOfInt(65535))))

\* MergeCMYK, MergeYCbCr: uint8(imgs[i].Gray16At(x, y).Y >> 8).
HighByte(sample) == Uint8(sample \div 256)

ByteInit ==
    /\ bPc = "value"
    /\ bV \in Uint8Values
    /\ bSample = 0
    /\ bHigh = 0
    /\ CodecIdle
    /\ PixelIdle
    /\ CmdIdle
    /\ RowsIdle

\* splitAny: grays[i].Set(x, y, toGrayVal(f)) for the channel value bV.
ByteStore ==
    /\ bPc = "value"
    /\ bSample' = toGrayValFloat64(ByteFraction(bV))
    /\ bPc' = "stored"
    /\ UNCHANGED <<bV, bHigh, codecVars, pixelVars, cmdVars, rowsVars>>

\* MergeCMYK, MergeYCbCr: the argument of the inverse transform.
ByteRead ==
    /\ bPc = "stored"
    /\ bHigh' = HighByte(bSample)
    /\ bPc' = "read"
    /\ UNCHANGED <<bV, bSample, codecVars, pixelVars, cmdVars, rowsVars>>

ByteNext == ByteStore \/ ByteRead

SpecByte == ByteInit /\ [][ByteNext]_vars

-----------------------------------------------------------------------------
(* The command line: main.go *)

\* cleanColorSpaceName without the lower-casing (a mutant).
cleanKeepCase(cs) == SelectSeq(cs, IsLetter)

\* cleanColorSpaceName: strings.Map keeping the letters, lower-cased.
cleanColorSpaceName(cs) ==
    LET letters == SelectSeq(cs, IsLetter)
    IN  [i \in 1..Len(letters) |-> ToLower(letters[i])]

\* for _, cs := range colorSpaceList { if name == cs ... }
InColorSpaceList(name) == \E i \in 1..Len(colorSpaceList) : colorSpaceList[i] = name

\* A resolution that never takes the second chance (a mutant).
ResolveExactOnly(orig) ==
    [valid |-> InColorSpaceList(cleanColorSpaceName(orig)),
     ColorSpace |-> Join(cleanColorSpaceName(orig)), Alpha |-> FALSE]

\* A resolution that accepts every name (a mutant).
ResolveAcceptAll(orig) ==
    [valid |-> TRUE, ColorSpace |-> Join(cleanColorSpaceName(orig)), Alpha |-> FALSE]

\* ParseCommandLine's resolution of --space: validCS, p.ColorSpace, p.Alpha.
ResolveColorSpace(orig) ==
    LET name == cleanColorSpaceName(orig)
        n == Len(name)
    IN  IF InColorSpaceList(name)
           THEN [valid |-> TRUE, ColorSpace |-> Join(name), Alpha |-> FALSE]
        ELSE IF n >= 1 /\ name[n] = "a" /\ InColorSpaceList(SubSeq(name, 1, n - 1))
           THEN [valid |-> TRUE, ColorSpace |-> Join(SubSeq(name, 1, n - 1)),
                 Alpha |-> TRUE]
        ELSE [valid |-> FALSE, ColorSpace |-> Join(name), Alpha |-> FALSE]

\* unicode.IsDigit and the value of a digit, on the characters used.
Digits == <<"0", "1", "2", "3", "4", "5", "6", "7", "8", "9">>

DigitSet == {Digits[i] : i \in 1..10}

DigitValue == [c \in DigitSet |-> (CHOOSE i \in 1..10 : Digits[i] = c) - 1]

IsDigit(c) == c \in DigitSet

\* strings.TrimSpace, a character at a time from each end.
RECURSIVE TrimLeft(_, _)
TrimLeft(s, i) ==
    IF i > Len(s) THEN <<>>
    ELSE IF s[i] = " " THEN TrimLeft(s, i + 1)
    ELSE SubSeq(s, i, Len(s))

RECURSIVE TrimRight(_, _)
TrimRight(s, n) ==
    IF n = 0 THEN <<>>
    ELSE IF s[n] = " " THEN TrimRight(s, n - 1)
    ELSE SubSeq(s, 1, n)

TrimSpace(s) == LET l == TrimLeft(s, 1) IN TrimRight(l, Len(l))

\* The function parseWhitePoint hands to strings.FieldsFunc: every character
\* that is no digit and none of + - E . separates fields.
IsSeparator(c) == ~IsDigit(c) /\ c \notin {"+", "-", "E", "."}

\* strings.FieldsFunc(s, IsSeparator): the maximal runs of characters that do
\* not separate; cur is the run being read at position i.
RECURSIVE FieldsFrom(_, _, _)
FieldsFrom(s, i, cur) ==
    IF i > Len(s) THEN (IF cur = <<>> THEN <<>> ELSE <<cur>>)
    ELSE IF IsSeparator(s[i])
       THEN (IF cur = <<>> THEN <<>> ELSE <<cur>>) \o FieldsFrom(s, i + 1, <<>>)
    ELSE FieldsFrom(s, i + 1, Append(cur, s[i]))

FieldsFunc(s) == FieldsFrom(s, 1, <<>>)

\* Where strconv's scan of the mantissa stops: at the first character that is
\* neither a digit nor the first point.
RECURSIVE MantissaEnd(_, _, _)
MantissaEnd(s, i, sawdot) ==
    IF i > Len(s) THEN i
    ELSE IF s[i] = "." /\ ~sawdot THEN MantissaEnd(s, i + 1, TRUE)
    ELSE IF IsDigit(s[i]) THEN MantissaEnd(s, i + 1, sawdot)
    ELSE i

\* The natural number a sequence of digits spells, as limbs.
RECURSIVE BigOfDigits(_, _)
BigOfDigits(ds, n) ==
    IF n = 0 THEN <<>>
    ELSE BigAdd(BigMulSmall(BigOfDigits(ds, n - 1), 10),
                IF DigitValue[ds[n]] = 0 THEN <<>> ELSE <<DigitValue[ds[n]]>>)

\* The small number a sequence of digits spells (the exponent).
RECURSIVE IntOfDigits(_, _)
IntOfDigits(ds, n) ==
    IF n = 0 THEN 0 ELSE 10 * IntOfDigits(ds, n - 1) + DigitValue[ds[n]]

\* strconv's reading of a field as a decimal numeral: an optional sign,
\* digits with at most one point and at least one digit, then an optional E,
\* an optional sign and at least one digit, and nothing after.  A field holds
\* no letter but E, so it spells no "Inf", no "NaN" and no hexadecimal
\* numeral.  The numeral read is (-1)^neg * n * 10^e10.
Signed(s) == s # <<>> /\ s[1] \in {"+", "-"}

HasExponent(s, mend) == mend <= Len(s) /\ s[mend] = "E"

ExponentSigned(s, mend) ==
    HasExponent(s, mend) /\ mend + 1 <= Len(s) /\ s[mend + 1] \in {"+", "-"}

ExponentDigits(s, mend) ==
    IF HasExponent(s, mend)
       THEN SubSeq(s, IF ExponentSigned(s, mend) THEN mend + 2 ELSE mend + 1, Len(s))
       ELSE <<>>

AllDigits(t) == \A i \in 1..Len(t) : IsDigit(t[i])

ExponentValue(s, mend, edigits) ==
    IF ~AllDigits(edigits) THEN 0
    ELSE IF ExponentSigned(s, mend) /\ s[mend + 1] = "-"
       THEN -IntOfDigits(edigits, Len(edigits))
    ELSE IntOfDigits(edigits, Len(edigits))

\* The digits after the point of a mantissa.
FractionDigits(mant) ==
    IF \E i \in 1..Len(mant) : mant[i] = "."
       THEN Len(mant) - (CHOOSE i \in 1..Len(mant) : mant[i] = ".")
       ELSE 0

ReadNumeral(s, mant, mend, edigits) ==
    [ok |-> /\ SelectSeq(mant, IsDigit) # <<>>
            /\ HasExponent(s, mend) \/ mend > Len(s)
            /\ HasExponent(s, mend) => edigits # <<>> /\ AllDigits(edigits),
     neg |-> Signed(s) /\ s[1] = "-",
     n |-> BigOfDigits(SelectSeq(mant, IsDigit), Len(SelectSeq(mant, IsDigit))),
     e10 |-> ExponentValue(s, mend, edigits) - FractionDigits(mant)]

ReadFrom(s, first, mend) ==
    ReadNumeral(s, SubSeq(s, first, mend - 1), mend, ExponentDigits(s, mend))

ReadFloat(s) ==
    ReadFrom(s, IF Signed(s) THEN 2 ELSE 1,
             MantissaEnd(s, IF Signed(s) THEN 2 ELSE 1, FALSE))

FloatOfNumeral(r) ==
    IF r.ok THEN [ok |-> TRUE, val |-> DoubleOfDecimal(r.neg, r.n, r.e10)]
    ELSE [ok |-> FALSE, val |-> DoubleZero]

\* strconv.ParseFloat(s, 64): the double nearest to the numeral read.
ParseFloat(s) == FloatOfNumeral(ReadFloat(s))

\* parseWhitePoint, statement by statement: each operator takes the values
\* the statements before it computed.

\* The test of x + y that accepts every pair (a mutant).
SumAboveOneNever(x, y) == FALSE

\* x+y > 1.0, in float64.
SumAboveOne(x, y) == DoubleCmp(DoubleAdd(x, y), DoubleOne) > 0

\* The conversion from (x, y) to XYZ, with z = 1.0 - x - y.
WhiteXYZ(x, y, z) == <<DoubleDiv(x, y), DoubleOne, DoubleDiv(z, y)>>

\* The checks of the two numbers parsed, in the order of the code.  named
\* lists the operands of the message of the notify.Fatalf: the message for y
\* is formatted with toks[0] too.
WhiteOfPair(toks, x, y) ==
    IF ~x.ok \/ DoubleCmp(x.val, DoubleZero) < 0 \/ DoubleCmp(x.val, DoubleOne) > 0
       THEN [fatal |-> "white: x", named |-> <<toks[1]>>, wp |-> <<>>]
    ELSE IF ~y.ok \/ DoubleCmp(y.val, DoubleZero) <= 0
                  \/ DoubleCmp(y.val, DoubleOne) > 0
       THEN [fatal |-> "white: y", named |-> <<toks[1]>>, wp |-> <<>>]
    ELSE IF SumAboveOne(x.val, y.val)
       THEN [fatal |-> "white: x + y", named |-> <<toks[1], toks[2]>>, wp |-> <<>>]
    ELSE [fatal |-> "", named |-> <<>>,
          wp |-> WhiteXYZ(x.val, y.val,
                          DoubleSub(DoubleSub(DoubleOne, x.val), y.val))]

WhiteOfFields(s, toks) ==
    IF Len(toks) # 2
       THEN [fatal |-> "white: not a pair", named |-> <<s>>, wp |-> <<>>]
    ELSE WhiteOfPair(toks, ParseFloat(toks[1]), ParseFloat(toks[2]))

WhiteOfUpper(s, wp) ==
    IF wp = <<"D", "6", "5">> THEN [fatal |-> "", named |-> <<>>, wp |-> D65]
    ELSE IF wp = <<"D", "5", "0">> THEN [fatal |-> "", named |-> <<>>, wp |-> D50]
    ELSE WhiteOfFields(s, FieldsFunc(wp))

UpperString(trimmed) == [i \in 1..Len(trimmed) |-> ToUpper(trimmed[i])]

\* parseWhitePoint: the white point, or the notify.Fatalf that ends the run.
parseWhitePoint(s) == WhiteOfUpper(s, UpperString(TrimSpace(s)))

\* ParseCommandLine once the white point w and the color space r are known.
ParseWith(space, split, merge, out, inputs, w, r) ==
    LET p1 == [ZeroParameters EXCEPT !.OutputName = out, !.OrigColorSpace = space,
                                     !.InputNames = inputs]
        p2 == [p1 EXCEPT !.WhitePoint = w.wp]
        p3 == [p2 EXCEPT !.Split = split]
        p4 == [p3 EXCEPT !.ColorSpace = r.ColorSpace, !.Alpha = r.Alpha]
    IN  IF w.fatal # "" THEN [p |-> p1, fatal |-> w.fatal]
        ELSE IF split /\ merge THEN [p |-> p2, fatal |-> "split and merge"]
        ELSE IF ~split /\ ~merge THEN [p |-> p2, fatal |-> "neither split nor merge"]
        ELSE IF ~r.valid THEN [p |-> p4, fatal |-> "space"]
        ELSE [p |-> p4, fatal |-> ""]

\* ParseCommandLine on a command line: the Parameters as far as they were
\* assigned, and the notify.Fatal that ended the run, if any.
ParseResult(space, split, merge, out, inputs, white) ==
    ParseWith(space, split, merge, out, inputs, parseWhitePoint(white),
              ResolveColorSpace(space))

\* strings.Contains(s, "%s").
ContainsVerb(s) == \E i \in 1..(Len(s) - 1) : s[i] = "%" /\ s[i + 1] = "s"

\* fmt.Sprintf(template, name) for templates made of "%s", "%%" and plain
\* characters: the first %s takes the operand, a later one has none, and an
\* operand no verb took is reported at the end.
RECURSIVE Format(_, _, _, _)
Format(template, i, used, name) ==
    IF i > Len(template)
       THEN IF used THEN "" ELSE "%!(EXTRA string=" \o name \o ")"
    ELSE IF template[i] # "%"
       THEN template[i] \o Format(template, i + 1, used, name)
    ELSE IF i = Len(template)
       THEN "%!(NOVERB)" \o Format(template, i + 1, used, name)
    ELSE IF template[i + 1] = "%"
       THEN "%" \o Format(template, i + 2, used, name)
    ELSE IF template[i + 1] = "s"
       THEN (IF used THEN "%!s(MISSING)" ELSE name)
               \o Format(template, i + 2, TRUE, name)
    ELSE "%!" \o template[i + 1] \o "(string=" \o name \o ")"
               \o Format(template, i + 2, TRUE, name)

Sprintf(template, name) == Format(template, 1, FALSE, name)

-----------------------------------------------------------------------------
(* SpecCmd: one run of main, from the command line to the files written *)

\* The most input files on a command line (cmyk with alpha takes five).
MaxInputs == 5

\* The longest of the short --space arguments.
ShortLen == 3

\* The files the run can name: two images of different bounds (same width)
\* and a file that cannot be opened or decoded.
FileNames == {"p.png", "q.png", "bad.png"}

FileImage(fn) ==
    CASE fn = "p.png" -> [kind |-> "file", bnds |-> <<2, 2>>]
      [] fn = "q.png" -> [kind |-> "file", bnds |-> <<2, 3>>]
      [] OTHER -> NoImage

Readable(fn) == fn # "bad.png"

InputLists == UNION { [1..k -> FileNames] : k \in 0..MaxInputs }

\* Ways of writing a registered name n, and near misses.
Starred(n) == [i \in 1..(2 * Len(n)) |-> IF i % 2 = 1 THEN n[(i + 1) \div 2] ELSE "*"]
Shouted(n) == [i \in 1..Len(n) |-> ToUpper(n[i])]

Decorated(n) ==
    { n, Shouted(n), Starred(n), <<"'">> \o n \o <<" ", "1">>,
      n \o <<"a">>, Shouted(n) \o <<"A">>, Starred(n) \o <<"a", "*">>,
      n \o <<"a", "a">>, <<"a">> \o n, n \o <<"b">> }

ShortArgs == UNION { [1..k -> {"r", "g", "b", "a", "R"}] : k \in 0..ShortLen }

SpaceArgs ==
    ShortArgs \cup UNION { Decorated(colorSpaceList[i]) : i \in 1..Len(colorSpaceList) }

RunSpaces ==
    { <<"r", "g", "b">>, <<"R", "G", "B", "A">>, <<"c", "m", "y", "k">>,
      <<"C", "M", "Y", "K", "a">>, <<"L", "*", "a", "*", "b", "*">>,
      <<"n", "o", "p", "e">> }

Templates ==
    { <<>>, <<"o">>, <<"o", "%", "s">>, <<"%", "%", "s">>, <<"%", "s", "%", "s">> }

\* The numerals of the --white arguments, as they are typed.
Numerals ==
    { <<"0">>, <<"-", "0">>, <<"0", ".", "2">>, <<"+", "0", ".", "3">>,
      <<".", "5">>, <<"0", ".", "8">>, <<"1">>, <<"1", ".">>,
      <<"1", ".", "5">>, <<"-", "0", ".", "1">>, <<"2", "e", "-", "1">>,
      <<"1", "E", "-", "1", "6">>, <<"1", "E">>, <<".">>, <<"3", "-", "1">> }

\* The --white arguments that are no pair of numerals: the standard names
\* in several spellings, and one or three numerals or none.
OddWhiteArgs ==
    { <<"D", "6", "5">>, <<"d", "6", "5">>, <<"D", "5", "0">>,
      <<" ", "d", "5", "0", " ">>, <<"D", " ", "6", "5">>, <<"D", "5", "5">>,
      <<>>, <<"0", ".", "3">>,
      <<"0", ".", "3", " ", "0", ".", "3", " ", "0", ".", "3">> }

\* The --white arguments that are two numerals and what stands between them.
PairWhiteArgs ==
    { x \o <<" ">> \o y : x \in Numerals, y \in Numerals }
    \cup { x \o s \o y : x \in { <<"0", ".", "2">>, <<"+", "0", ".", "3">> },
                          y \in { <<"0", ".", "2">>, <<"+", "0", ".", "3">> },
                          s \in { <<",">>, <<" ", "y", "=">>, <<"x">> } }

WhiteArgs == OddWhiteArgs \cup PairWhiteArgs

\* The input lists of the runs that split: none, one, two.
FewInputs == UNION { [1..k -> FileNames] : k \in 0..2 }

\* The command lines: every --space argument on a plain split; merges of
\* every input list; every mix of flags and template; every --white.
CmdInit ==
    /\ \/ /\ aSpace \in SpaceArgs
          /\ aSplit = TRUE /\ aMerge = FALSE
          /\ aOut = <<"o", "%", "s">>
          /\ aInputs = <<"p.png">>
          /\ aWhite = <<"D", "6", "5">>
       \/ /\ aSpace \in RunSpaces
          /\ aSplit = FALSE /\ aMerge = TRUE
          /\ aOut \in { <<>>, <<"o">> }
          /\ aInputs \in InputLists
          /\ aWhite = <<"D", "6", "5">>
       \/ /\ aSpace \in RunSpaces
          /\ aSplit \in BOOLEAN /\ aMerge \in BOOLEAN
          /\ aOut \in Templates
          /\ aInputs \in FewInputs
          /\ aWhite = <<"D", "6", "5">>
       \/ /\ aSpace \in { <<"l", "a", "b">>, <<"n", "o", "p", "e">> }
          /\ aSplit \in BOOLEAN /\ aMerge \in BOOLEAN
          /\ aOut = <<"o", "%", "s">>
          /\ aInputs = <<"p.png">>
          /\ aWhite \in OddWhiteArgs
       \/ /\ aSpace = <<"l", "a", "b">>
          /\ aSplit = TRUE /\ aMerge = FALSE
          /\ aOut = <<"o", "%", "s">>
          /\ aInputs = <<"p.png">>
          /\ aWhite \in PairWhiteArgs
    /\ mPc = "start"
    /\ p = ZeroParameters
    /\ mImage = NoImage
    /\ mOuts = <<>>
    /\ mChannels = <<>>
    /\ mReads = <<>>
    /\ mWritten = <<>>
    /\ mFatal = ""
    /\ CodecIdle
    /\ PixelIdle
    /\ RowsIdle
    /\ ByteIdle

\* main: ParseCommandLine(&p).
ParseCommandLine ==
    /\ mPc = "start"
    /\ \E r \in {ParseResult(aSpace, aSplit, aMerge, aOut, aInputs, aWhite)} :
           /\ p' = r.p
           /\ mFatal' = r.fatal
           /\ mPc' = IF r.fatal # "" THEN "fatal" ELSE "parsed"
    /\ UNCHANGED <<argVars, mImage, mOuts, mChannels, mReads, mWritten,
                   codecVars, pixelVars, rowsVars, byteVars>>

\* SplitImage's checks with the template checked before the inputs (a mutant).
SplitCheckTemplateFirst(q) ==
    IF q.OutputName = <<>> THEN "split: no template"
    ELSE IF ~ContainsVerb(q.OutputName) THEN "split: no %s"
    ELSE IF Len(q.InputNames) # 1 THEN "split: inputs"
    ELSE ""

\* SplitImage's checks: the notify.Fatal they end in, "" if they pass.
SplitCheck(q) ==
    IF Len(q.InputNames) # 1 THEN "split: inputs"
    ELSE IF q.OutputName = <<>> THEN "split: no template"
    ELSE IF ~ContainsVerb(q.OutputName) THEN "split: no %s"
    ELSE ""

GrayImage(bnds) == [kind |-> "Gray16", bnds |-> bnds]

\* performImageSplit, then ExtractAlpha if p.Alpha: the ImageInfo list.
SplitInfos(q, img) ==
    LET names == ChannelNames(q.ColorSpace)
                    \o (IF q.Alpha THEN <<"alpha">> ELSE <<>>)
    IN  [i \in 1..Len(names) |-> [Name |-> names[i], Image |-> GrayImage(img.bnds)]]

\* main: SplitImage(&p), up to the checks.
SplitValidate ==
    /\ mPc = "parsed"
    /\ p.Split
    /\ mFatal' = SplitCheck(p)
    /\ mPc' = IF SplitCheck(p) # "" THEN "fatal" ELSE "split: read"
    /\ UNCHANGED <<argVars, p, mImage, mOuts, mChannels, mReads, mWritten,
                   codecVars, pixelVars, rowsVars, byteVars>>

\* SplitImage: inImg := ReadImage(p.InputNames[0]).
SplitRead ==
    /\ mPc = "split: read"
    /\ mReads' = Append(mReads, p.InputNames[1])
    /\ IF Readable(p.InputNames[1])
          THEN /\ mImage' = FileImage(p.InputNames[1])
               /\ mPc' = "split: perform"
               /\ mFatal' = mFatal
          ELSE /\ mImage' = mImage
               /\ mPc' = "fatal"
               /\ mFatal' = "read"
    /\ UNCHANGED <<argVars, p, mOuts, mChannels, mWritten, codecVars, pixelVars, rowsVars, byteVars>>

\* The switch of performImageSplit without the case "hsluv" (a mutant).
SplitCasesNoHSLuv ==
    { "cmyk", "hcl", "hsl", "lab", "linrgb", "luv", "rgb", "srgb", "xyy",
      "xyz", "ycbcr" }

\* The cases of the switch of performImageSplit.
SplitCases ==
    { "cmyk", "hcl", "hsl", "hsluv", "lab", "linrgb", "luv", "rgb", "srgb",
      "xyy", "xyz", "ycbcr" }

\* SplitImage: performImageSplit and ExtractAlpha.  The default case of the
\* switch panics.
SplitPerform ==
    /\ mPc = "split: perform"
    /\ IF p.ColorSpace \in SplitCases
          THEN mOuts' = SplitInfos(p, mImage) /\ mPc' = "split: write"
          ELSE mOuts' = mOuts /\ mPc' = "panic"
    /\ UNCHANGED <<argVars, p, mImage, mChannels, mReads, mWritten, mFatal,
                   codecVars, pixelVars, rowsVars, byteVars>>

\* SplitImage: one turn of the loop over outImgs (mOuts keeps the part not
\* yet written).  WritePNG may fail; its error is dropped.
SplitWrite ==
    /\ mPc = "split: write"
    /\ mOuts # <<>>
    /\ \E ok \in BOOLEAN :
          mWritten' = IF ok
                         THEN Append(mWritten,
                                     [name |-> Sprintf(p.OutputName, Head(mOuts).Name),
                                      img |-> Head(mOuts).Image])
                         ELSE mWritten
    /\ mOuts' = Tail(mOuts)
    /\ mPc' = IF Tail(mOuts) = <<>> THEN "done" ELSE "split: write"
    /\ UNCHANGED <<argVars, p, mImage, mChannels, mReads, mFatal,
                   codecVars, pixelVars, rowsVars, byteVars>>

\* MergeChannels: the number of input files it expects.
MergeExpected(q) == channelCount(q.ColorSpace) + (IF q.Alpha THEN 1 ELSE 0)

\* A comparison of the widths only (a mutant).
BoundsAgreeWidthOnly(channels) ==
    \A i \in 1..Len(channels) : channels[i].bnds[1] = channels[1].bnds[1]

\* MergeChannels: every g.Bounds() equals channels[0].Bounds().
BoundsAgree(channels) ==
    \A i \in 1..Len(channels) : channels[i].bnds = channels[1].bnds

\* The image a Merge* function returns: an *image.NRGBA64 from MergeRGB, an
\* *image.NRGBA from the others, with the bounds of imgs[0].  color names the
\* inputs (by position on the command line) it took as imgs[0], imgs[1], ...;
\* alpha the input AddAlpha took, 0 if none.
MergedImage(q, channels) ==
    [kind |-> IF q.ColorSpace = "rgb" THEN "NRGBA64" ELSE "NRGBA",
     bnds |-> channels[1].bnds,
     color |-> [i \in 1..channelCount(q.ColorSpace) |-> channels[i].arg],
     alpha |-> 0]

\* The image ReadGrayscaleImage returns for the i-th input file.
ChannelImage(fn, i) == [kind |-> "Gray16", bnds |-> FileImage(fn).bnds, arg |-> i]

\* An AddAlpha call that passes the first channel (a mutant).
AlphaChannelFirst(channels) == channels[1]

\* The channel MergeChannels passes to AddAlpha: channels[len(channels)-1].
AlphaChannel(channels) == channels[Len(channels)]

\* main: MergeChannels(&p), up to the check of the number of inputs.
MergeCheckCount ==
    /\ mPc = "parsed"
    /\ ~p.Split
    /\ IF Len(p.InputNames) # MergeExpected(p)
          THEN mPc' = "fatal" /\ mFatal' = "merge: count"
          ELSE mPc' = "merge: read" /\ mFatal' = mFatal
    /\ UNCHANGED <<argVars, p, mImage, mOuts, mChannels, mReads, mWritten,
                   codecVars, pixelVars, rowsVars, byteVars>>

\* MergeChannels: one turn of the loop over p.InputNames, ReadGrayscaleImage.
MergeRead ==
    /\ mPc = "merge: read"
    /\ Len(mChannels) < Len(p.InputNames)
    /\ LET fn == p.InputNames[Len(mChannels) + 1]
       IN  /\ mReads' = Append(mReads, fn)
           /\ IF Readable(fn)
                 THEN /\ mChannels' = Append(mChannels,
                                                  ChannelImage(fn, Len(mChannels) + 1))
                      /\ mPc' = mPc
                      /\ mFatal' = mFatal
                 ELSE /\ mChannels' = mChannels
                      /\ mPc' = "fatal"
                      /\ mFatal' = "read"
    /\ UNCHANGED <<argVars, p, mImage, mOuts, mWritten, codecVars, pixelVars, rowsVars, byteVars>>

\* MergeChannels: the check of the bounds.
MergeCheckBounds ==
    /\ mPc = "merge: read"
    /\ Len(mChannels) = Len(p.InputNames)
    /\ IF BoundsAgree(mChannels)
          THEN mPc' = "merge: merge" /\ mFatal' = mFatal
          ELSE mPc' = "fatal" /\ mFatal' = "merge: bounds"
    /\ UNCHANGED <<argVars, p, mImage, mOuts, mChannels, mReads, mWritten,
                   codecVars, pixelVars, rowsVars, byteVars>>

\* The cases of the switch of MergeChannels.
MergeCases ==
    { "cmyk", "hcl", "hsl", "hsluv", "lab", "linrgb", "luv", "rgb", "srgb",
      "xyy", "xyz", "ycbcr" }

\* MergeChannels: the Merge* function of p.ColorSpace.  The default case of
\* the switch panics.
MergePerform ==
    /\ mPc = "merge: merge"
    /\ IF p.ColorSpace \in MergeCases
          THEN /\ mImage' = MergedImage(p, mChannels)
               /\ mPc' = IF p.Alpha THEN "merge: alpha" ELSE "merge: write"
          ELSE /\ mImage' = mImage
               /\ mPc' = "panic"
    /\ UNCHANGED <<argVars, p, mOuts, mChannels, mReads, mWritten, mFatal,
                   codecVars, pixelVars, rowsVars, byteVars>>

\* MergeChannels: AddAlpha(merged, channels[len(channels)-1]).
MergeAddAlpha ==
    /\ mPc = "merge: alpha"
    /\ mImage' = [mImage EXCEPT !.kind = "NRGBA64",
                                 !.alpha = AlphaChannel(mChannels).arg]
    /\ mPc' = "merge: write"
    /\ UNCHANGED <<argVars, p, mOuts, mChannels, mReads, mWritten, mFatal,
                   codecVars, pixelVars, rowsVars, byteVars>>

\* MergeChannels: WritePNG(p.OutputName, merged); "" is standard output.
MergeWrite ==
    /\ mPc = "merge: write"
    /\ \E ok \in BOOLEAN :
          IF ok
             THEN /\ mWritten' = Append(mWritten,
                                        [name |-> Join(p.OutputName), img |-> mImage])
                  /\ mPc' = "done"
                  /\ mFatal' = mFatal
             ELSE /\ mWritten' = mWritten
                  /\ mPc' = "fatal"
                  /\ mFatal' = "write"
    /\ UNCHANGED <<argVars, p, mImage, mOuts, mChannels, mReads,
                   codecVars, pixelVars, rowsVars, byteVars>>

CmdNext ==
    \/ ParseCommandLine
    \/ SplitValidate \/ SplitRead \/ SplitPerform \/ SplitWrite
    \/ MergeCheckCount \/ MergeRead \/ MergeCheckBounds \/ MergePerform
    \/ MergeAddAlpha \/ MergeWrite

SpecCmd == CmdInit /\ [][CmdNext]_vars

-----------------------------------------------------------------------------
(* Claims about the channel codec, checked under SpecCodec *)

cScalar == ScalarOf(cKind, cDepth, cK)
cNormalized == Normalize(cKind, cScalar)

\* C2: for every channel range (unit, sym, hue), both bit depths and every
\* scalar v inside the declared range, decoding the sample encode produced for
\* v gives a value within one quantization step (range width / max) of v.
C2_DecodeEncodeWithinOneStep ==
    (cPc = "decoded" /\ InRange(cDepth, cK))
        => RatLeq(RatAbs(RatSub(cOut, cScalar)), QuantStep(cKind, cDepth))

\* A two-sided 16-bit channel scalar that is not a multiple of the step has been
\* encoded and decoded, and came back changed.
C2_Witness ==
    /\ cPc = "decoded"
    /\ cKind = "sym"
    /\ cDepth = 16
    /\ InRange(cDepth, cK)
    /\ cK % SubSteps # 0
    /\ cOut # cScalar

\* C5: toGrayVal saturates: a normalized value below 0 gives sample 0, one
\* above 1 gives the maximum sample, and one in [0,1] gives floor(f * max),
\* which is within 0..max, so the conversion to the sample type never wraps.
C5_EncodeSaturates ==
    (cPc # "input") =>
        /\ RatNeg(cNormalized) => cSample = 0
        /\ RatLt(RatInt(1), cNormalized) => cSample = MaxSample(cDepth)
        /\ (~RatNeg(cNormalized) /\ RatLeq(cNormalized, RatInt(1))) =>
              /\ 0 <= cSample /\ cSample <= MaxSample(cDepth)
              /\ cSample = FloorScale(cNormalized, MaxSample(cDepth))

\* A 16-bit scalar above its declared maximum has been encoded to 65535.
C5_Witness ==
    /\ cPc = "encoded"
    /\ cDepth = 16
    /\ cK > GridDen(cDepth)
    /\ cSample = 65535

-----------------------------------------------------------------------------
(* Claims about one pixel through SPLIT and MERGE, checked under SpecPixel *)

\* The highest component value of a stored pixel: the output depth.
MaxComponent(px) == IF px.t = "NRGBA" THEN 255 ELSE 65535

\* The non-premultiplied alpha of a source pixel, at 16 bits.
SourceAlpha16(px) == IF px.t = "NRGBA" THEN px.A * 257 ELSE px.A

Opaque(px) == px.A = MaxComponent(px)

\* A stored pixel's components at 16 bits.
Components16(px) ==
    IF px.t = "NRGBA" THEN <<px.R * 257, px.G * 257, px.B * 257>>
    ELSE <<px.R, px.G, px.B>>

\* C1: for an opaque 8-bit image and the models computed here without the
\* library (rgb, srgb, linrgb), MERGE of the buffers SPLIT produced
\* reproduces every component of every pixel within one quantization step of
\* the 16-bit codec.
C1_RoundTripWithinQuantization ==
    (/\ xPc = "merged"
     /\ xSrc.t = "NRGBA"
     /\ Opaque(xSrc)
     /\ xModel \in {"rgb", "srgb", "linrgb"})
        => \A i \in 1..3 :
              Abs(Components16(xOut)[i] - Components16(xSrc)[i]) <= 1

\* C3: after SPLIT with alpha and MERGE with the alpha buffer, the alpha of
\* the merged pixel is the non-premultiplied alpha of the source pixel, at 16
\* bits, for every model and every color.
C3_AlphaRestored ==
    (xPc = "merged" /\ xAlpha /\ xSrc.t # "none")
        => (xOut.t = "NRGBA64" /\ xOut.A = SourceAlpha16(xSrc))

C3_Witness ==
    /\ xPc = "merged" /\ xAlpha /\ xModel = "hcl"
    /\ xSrc.t = "NRGBA" /\ xSrc.A = 128 /\ xSrc.R = 255
    /\ xOut.A = 32896

ComponentInRange(px) ==
    /\ px.t \in {"NRGBA", "NRGBA64"}
    /\ px.R \in 0..MaxComponent(px)
    /\ px.G \in 0..MaxComponent(px)
    /\ px.B \in 0..MaxComponent(px)
    /\ px.A \in 0..MaxComponent(px)

\* A component of a color outside [0,1] is stored as the nearest end of the
\* 8-bit range, and one inside as its 16-bit rounding's high byte.
StoredSaturated(c, stored) ==
    IF RatNeg(c) THEN stored = 0
    ELSE IF RatLt(RatInt(1), c) THEN stored = 255
    ELSE stored = RoundScale(c, 65535) \div 256

\* C4: for every model and every combination of samples MERGE stores a pixel
\* whose components lie within 0..max of the output depth, and a color the
\* samples decode to outside the RGB gamut is stored saturated, not wrapped.
C4_MergeInRange ==
    (xPc = "merged")
        => /\ ComponentInRange(xMerged)
           /\ ComponentInRange(xOut)
           /\ xClr.t = "Color" =>
                /\ StoredSaturated(xClr.R, xMerged.R)
                /\ StoredSaturated(xClr.G, xMerged.G)
                /\ StoredSaturated(xClr.B, xMerged.B)

\* xyy with all three buffers at mid-gray, decoding outside the gamut.
C4_Witness ==
    /\ xPc = "merged" /\ xModel = "xyy" /\ xSrc.t = "none"
    /\ xBufs = <<32767, 32767, 32767>>
    /\ RatNeg(xClr.B) /\ RatLt(RatInt(1), xClr.R)
    /\ xMerged.B = 0 /\ xMerged.R = 255

EightBitModels == {"cmyk", "ycbcr"}

\* The samples of the color channels with their low 8 bits cleared.
HighBytesOnly(bufs) ==
    [i \in 1..Len(bufs) |->
        IF i <= channelCount(xModel) THEN (bufs[i] \div 256) * 256 ELSE bufs[i]]

\* MERGE under cmyk and ycbcr reads the high 8 bits of every sample only:
\* the pixel it builds is the pixel built from the samples with their low
\* 8 bits cleared, and it is an 8-bit pixel.
MergeDiscardsLowBits ==
    (xModel \in EightBitModels /\ xPc = "merged") =>
        /\ xMerged = MergePixel(xModel, HighBytesOnly(xBufs), NoLib)
        /\ xMerged.t = "NRGBA"

\* The samples SPLIT stored for the color channels of the pixel.
SplitSamples ==
    IF xModel \in EightBitModels /\ xSrc # NoPixel /\ xPc # "source"
       THEN {xBufs[i] : i \in 1..channelCount(xModel)}
       ELSE {}

\* C17 as the specification words it: under cmyk and ycbcr MERGE discards
\* the low 8 bits of every sample, and every sample SPLIT stores is an 8-bit
\* result with 8 zero bits below it.
C17_ZeroFilledAfter ==
    /\ MergeDiscardsLowBits
    /\ \A s \in SplitSamples : s % 256 = 0

\* C17: under cmyk and ycbcr MERGE discards the low 8 bits of every sample,
\* and every sample SPLIT stores is an 8-bit result v scaled to the 16-bit
\* range, v * 257: its low 8 bits repeat its high 8 bits.
C17_ByteReplicatedAfter ==
    /\ MergeDiscardsLowBits
    /\ \A s \in SplitSamples : s % 256 = s \div 256

C17_Witness ==
    /\ xModel = "cmyk" /\ xPc = "merged" /\ xSrc # NoPixel
    /\ xBufs[1] = 0 /\ xBufs[2] = 65535 /\ xBufs[4] = 128 * 257
    /\ xMerged = MergePixel(xModel, HighBytesOnly(xBufs), NoLib)

\* The models with a hue channel, their first.
HueModels == {"hcl", "hsl", "hsluv"}

\* The hue MERGE decodes from the sample of the H buffer.
DecodedHue == DecodedScalars(xModel, xBufs)[1]

\* SPLIT hands hue / 360 to toGrayVal, for the hue the library returned, and
\* stores the sample toGrayVal makes of it; MERGE decodes sample * 360 / 65535.
HueScaledBy360 ==
    /\ (xModel \in HueModels /\ xPc = "split") =>
           /\ \E h \in LibScalars("hue") : xFwd[1] = RatDivInt(h, 360)
           /\ xBufs[1] = toGrayVal(xFwd[1])
    /\ (xModel \in HueModels /\ xBufs # <<>>) =>
           DecodedHue = Rat(xBufs[1] * 360, 65535)

RedPixel == NRGBA(255, 0, 0, 255)

RedSplit == xModel = "rgb" /\ ~xAlpha /\ xSrc = RedPixel /\ xPc # "source"

\* What SplitImage makes of a 2x2 image under "rgb": three 2x2 buffers named
\* R, G and B, in this order.
RedBuffers ==
    SplitInfos([ColorSpace |-> "rgb", Alpha |-> FALSE], FileImage("p.png"))
        = << [Name |-> "R", Image |-> GrayImage(<<2, 2>>)],
             [Name |-> "G", Image |-> GrayImage(<<2, 2>>)],
             [Name |-> "B", Image |-> GrayImage(<<2, 2>>)] >>

\* C19 as the specification words it: a 2x2 fully red image split under
\* "rgb" gives three 2x2 buffers R, G, B, with sample 255 in R and 0 in G
\* and B at every pixel.
C19_RedSample255 == RedSplit => (RedBuffers /\ xBufs = <<255, 0, 0>>)

\* C19: a 2x2 fully red image split under "rgb" gives three 2x2 buffers R,
\* G, B, with sample 65535, the maximum of the 16-bit codec, in R and 0 in G
\* and B at every pixel.
C19_RedSampleMax == RedSplit => (RedBuffers /\ xBufs = <<65535, 0, 0>>)

C19_Witness ==
    /\ xModel = "rgb" /\ ~xAlpha /\ xSrc = RedPixel /\ xPc = "split"
    /\ xBufs = <<65535, 0, 0>> /\ xFwd = <<RatInt(1), RatInt(0), RatInt(0)>>

\* A fully transparent black pixel, split under hcl with alpha.
TransparentBlack == NRGBA(0, 0, 0, 0)

TransparentBlackSplit ==
    xModel = "hcl" /\ xAlpha /\ xSrc = TransparentBlack /\ xPc # "source"

\* The names of the buffers SplitImage makes under the resolved parameters q.
BufferNames(q) ==
    LET infos == SplitInfos(q, FileImage("p.png"))
    IN  [i \in 1..Len(infos) |-> infos[i].Name]

OpaqueAlpha(px) == IF px.t = "NRGBA64" THEN 65535 ELSE 255

\* C21: without an alpha channel, the pixel MergeChannels writes is fully
\* opaque, for every model and all samples of the channel files; the pixel
\* the Merge* function stored is opaque with an alpha channel too.
C21_MergedOpaque ==
    xPc = "merged" =>
        /\ xMerged.A = OpaqueAlpha(xMerged)
        /\ ~xAlpha => xOut = xMerged /\ xOut.A = OpaqueAlpha(xOut)

C21_Witness ==
    /\ xPc = "merged" /\ ~xAlpha /\ xModel = "cmyk" /\ xSrc = NoPixel
    /\ xBufs = <<0, 32767, 65535, 0>>
    /\ xOut.t = "NRGBA" /\ xOut.A = 255

\* The non-premultiplied color of a pixel in 16 bits: an 8-bit component v
\* is the 16-bit component v * 257 (v/255 = v*257/65535).
Color16(px) ==
    IF px.t = "NRGBA64" THEN <<px.R, px.G, px.B>>
    ELSE <<px.R * 257, px.G * 257, px.B * 257>>

\* C26: AddAlpha changes the opacity only: the pixel it stores has the
\* non-premultiplied color of the merged pixel and the sample of the alpha
\* buffer (the last channel) as its alpha, whatever the color channels hold;
\* the merged pixel stays what the Merge* function stored, and no channel
\* buffer changes.
C26_AddAlphaOnlyOpacity ==
    [][ (xPc = "files" /\ xPc' = "merged" /\ xAlpha) =>
            /\ xOut'.t = "NRGBA64"
            /\ Color16(xOut') = Color16(xMerged')
            /\ xOut'.A = xBufs[Len(xBufs)]
            /\ \E lib \in LibInvChoices(xModel) :
                  xMerged' = MergePixel(xModel, xBufs, lib)
            /\ xBufs' = xBufs ]_vars

C26_Witness ==
    /\ xPc = "merged" /\ xAlpha /\ xModel = "srgb" /\ xSrc = NoPixel
    /\ xBufs = <<65535, 32767, 0, 32767>>
    /\ xMerged = NRGBA(255, 127, 0, 255)
    /\ xOut = NRGBA64(65535, 32639, 0, 32767)

-----------------------------------------------------------------------------
(* Claims about a run of main, checked under SpecCmd *)

\* The notify.Fatal calls ParseCommandLine makes before it looks at --space.
EarlyFatals ==
    {"white: not a pair", "white: x", "white: y", "white: x + y",
     "split and merge", "neither split nor merge"}

\* ParseCommandLine has resolved --space (and accepted or rejected it).
SpaceResolved == mPc \notin {"idle", "start"} /\ mFatal \notin EarlyFatals

\* ParseCommandLine has returned and main runs MergeChannels / SplitImage.
MergeRunning == SpaceResolved /\ mFatal # "space" /\ aMerge
SplitRunning == SpaceResolved /\ mFatal # "space" /\ aSplit

\* Some input file has other bounds than the first one.
BoundsDiffer ==
    \E i \in 1..Len(aInputs) :
        FileImage(aInputs[i]).bnds # FileImage(aInputs[1]).bnds

\* C6: MergeChannels reaches a Merge* function, and writes, only if every
\* input has the bounds of the first; otherwise the run ends in the fatal
\* error about dimensions with nothing merged and nothing written.
C6_BoundsCheckedBeforeMerge ==
    MergeRunning =>
        /\ mImage # NoImage => ~BoundsDiffer
        /\ mWritten # <<>> => ~BoundsDiffer
        /\ mFatal = "merge: bounds" =>
              (BoundsDiffer /\ mPc = "fatal" /\ mImage = NoImage /\ mWritten = <<>>)
        /\ (BoundsDiffer /\ mPc \in {"merge: merge", "merge: alpha", "merge: write", "done"})
              => FALSE

C6_Witness ==
    /\ mPc = "fatal" /\ mFatal = "merge: bounds"
    /\ aInputs = <<"p.png", "p.png", "q.png">>
    /\ mReads = aInputs /\ Len(mChannels) = 3
    /\ mImage = NoImage /\ mWritten = <<>>

\* The number of inputs MERGE requires: 4 for cmyk, 3 for the others, one
\* more with alpha.
RequiredInputs ==
    (IF p.ColorSpace = "cmyk" THEN 4 ELSE 3) + (IF p.Alpha THEN 1 ELSE 0)

\* C7: with any other number of inputs than channelCount (+1 if alpha)
\* MergeChannels ends in the fatal error about the count before any input is
\* read, any pixel merged or any output written; with that number it does
\* not.
C7_InputCountChecked ==
    (MergeRunning /\ mPc # "parsed") =>
        /\ Len(aInputs) # RequiredInputs =>
              /\ mPc = "fatal" /\ mFatal = "merge: count"
              /\ mReads = <<>> /\ mChannels = <<>>
              /\ mImage = NoImage /\ mWritten = <<>>
        /\ Len(aInputs) = RequiredInputs => mFatal # "merge: count"

C7_Witness ==
    /\ mPc = "fatal" /\ mFatal = "merge: count"
    /\ p.ColorSpace = "cmyk" /\ p.Alpha /\ Len(aInputs) = 4
    /\ mReads = <<>> /\ mWritten = <<>>

\* C8: SplitImage ends in a fatal error, with no input read and no output
\* written, when the number of inputs is not one, or else the template is
\* empty, or else the template has no "%s"; the error is that of the first
\* of these that applies.
C8_SplitRejected ==
    (SplitRunning /\ mPc # "parsed") =>
        LET badInputs == Len(aInputs) # 1
            noTemplate == aOut = <<>>
            noVerb == ~\E i \in 1..(Len(aOut) - 1) : aOut[i] = "%" /\ aOut[i + 1] = "s"
        IN  /\ badInputs => mFatal = "split: inputs"
            /\ (~badInputs /\ noTemplate) => mFatal = "split: no template"
            /\ (~badInputs /\ ~noTemplate /\ noVerb) => mFatal = "split: no %s"
            /\ (badInputs \/ noTemplate \/ noVerb) =>
                  /\ mPc = "fatal"
                  /\ mReads = <<>> /\ mImage = NoImage /\ mWritten = <<>>
            /\ ~(badInputs \/ noTemplate \/ noVerb) =>
                  mFatal \notin {"split: inputs", "split: no template", "split: no %s"}

C8_Witness ==
    /\ mPc = "fatal" /\ mFatal = "split: inputs"
    /\ Len(aInputs) = 2 /\ aOut = <<>>
    /\ mReads = <<>> /\ mWritten = <<>>

\* The letters of a string, and two strings having the same letters,
\* ignoring case.
LettersOnly(s) == SelectSeq(s, IsLetter)

SameLetters(s, u) ==
    /\ Len(LettersOnly(s)) = Len(LettersOnly(u))
    /\ \A i \in 1..Len(LettersOnly(s)) :
          ToUpper(LettersOnly(s)[i]) = ToUpper(LettersOnly(u)[i])

\* Other ways of writing the letters of s, and the ways of writing the
\* registered names and their near misses.
Respelled(s) ==
    { LettersOnly(s), Shouted(LettersOnly(s)), Starred(Shouted(LettersOnly(s))),
      <<"1", " ">> \o LettersOnly(s) \o <<"'">> }

Spellings == UNION { Decorated(colorSpaceList[i]) : i \in 1..Len(colorSpaceList) }

\* What the run made of --space.
SpaceOutcome ==
    [valid |-> mFatal # "space", ColorSpace |-> p.ColorSpace, Alpha |-> p.Alpha]

\* C9: every --space argument with the same letters, ignoring case, as the
\* one given resolves to the same outcome (accepted or not, ColorSpace,
\* Alpha), and cleaning the cleaned name changes nothing.
C9_SameLettersSameSpace ==
    (SpaceResolved /\ (mPc = "parsed" \/ mFatal = "space")) =>
        /\ \A other \in Respelled(aSpace) \cup Spellings :
              SameLetters(aSpace, other) => ResolveColorSpace(other) = SpaceOutcome
        /\ cleanColorSpaceName(cleanColorSpaceName(aSpace)) = cleanColorSpaceName(aSpace)

C9_Witness ==
    /\ mPc = "parsed"
    /\ aSpace = <<"L", "*", "a", "*", "b", "*">>
    /\ p.ColorSpace = "lab" /\ ~p.Alpha

\* C10: a cleaned name that is registered is taken as it is, without alpha;
\* one that is not, ends in "a" and is registered without it selects the
\* base name with alpha; so a registered name followed by "a" selects that
\* model with alpha, and alpha is set in no other case.
C10_TrailingAlpha ==
    SpaceResolved =>
        LET name == cleanColorSpaceName(aSpace)
            n == Len(name)
            base == SubSeq(name, 1, n - 1)
        IN  /\ Join(name) \in colorSpaceNames =>
                  (mFatal # "space" /\ p.ColorSpace = Join(name) /\ ~p.Alpha)
            /\ (Join(name) \notin colorSpaceNames /\ n >= 1 /\ name[n] = "a"
                  /\ Join(base) \in colorSpaceNames) =>
                  (mFatal # "space" /\ p.ColorSpace = Join(base) /\ p.Alpha)
            /\ \A i \in 1..Len(colorSpaceList) :
                  aSpace = colorSpaceList[i] \o <<"a">> =>
                     (mFatal # "space" /\ p.ColorSpace = Join(colorSpaceList[i])
                        /\ p.Alpha)
            /\ p.Alpha => (Join(name) \notin colorSpaceNames /\ name[n] = "a")

C10_Witness ==
    /\ mPc = "parsed"
    /\ aSpace = <<"y", "c", "b", "c", "r", "a">>
    /\ p.ColorSpace = "ycbcr" /\ p.Alpha

\* The cleaned --space argument is neither a registered name nor a
\* registered name followed by "a".
UnknownSpace ==
    LET name == cleanColorSpaceName(aSpace)
        n == Len(name)
    IN  /\ Join(name) \notin colorSpaceNames
        /\ ~(n >= 1 /\ name[n] = "a" /\ Join(SubSeq(name, 1, n - 1)) \in colorSpaceNames)

\* Neither SplitImage nor MergeChannels has done anything.
NothingRun ==
    /\ mReads = <<>> /\ mWritten = <<>> /\ mImage = NoImage
    /\ mOuts = <<>> /\ mChannels = <<>>
    /\ mPc \notin {"split: read", "split: perform", "split: write", "merge: read",
                   "merge: merge", "merge: alpha", "merge: write", "done"}

\* C11: with an unknown color-space name ParseCommandLine ends the run in a
\* fatal error (the one about --space unless an earlier check already
\* failed), and neither SplitImage nor MergeChannels is called.
C11_UnknownSpaceFatal ==
    (mPc \notin {"idle", "start"} /\ UnknownSpace) =>
        /\ mPc = "fatal"
        /\ mFatal \in EarlyFatals \cup {"space"}
        /\ SpaceResolved => mFatal = "space"
        /\ NothingRun

C11_Witness ==
    /\ mPc = "fatal" /\ mFatal = "space"
    /\ aSpace = <<"r", "g", "b", "a", "a">>
    /\ p.ColorSpace = "rgbaa" /\ ~p.Alpha /\ NothingRun

\* The names of a list of ImageInfo.
InfoNames(infos) == [i \in 1..Len(infos) |-> infos[i].Name]

\* The last k elements of a sequence.
LastOf(s, k) == SubSeq(s, Len(s) - k + 1, Len(s))

\* C12: SPLIT with alpha emits the color channels in model order followed by
\* one buffer named "alpha" (what is still to be written is always a tail of
\* that list) and emits no "alpha" without alpha; MERGE takes its first
\* channelCount inputs, in order, as the color channels and, with alpha, its
\* last input as the alpha buffer.
C12_AlphaLast ==
    /\ (SplitRunning /\ mPc \in {"split: write", "done"}) =>
          LET all == ChannelNames(p.ColorSpace)
                        \o (IF p.Alpha THEN <<"alpha">> ELSE <<>>)
          IN  /\ Len(mOuts) <= Len(all)
              /\ InfoNames(mOuts) = LastOf(all, Len(mOuts))
              /\ \A i \in 1..Len(ChannelNames(p.ColorSpace)) :
                    ChannelNames(p.ColorSpace)[i] # "alpha"
              /\ Len(mWritten) <= Len(all) - Len(mOuts)
    /\ (MergeRunning /\ mImage # NoImage) =>
          LET k == IF p.ColorSpace = "cmyk" THEN 4 ELSE 3
          IN  /\ mImage.color = [i \in 1..k |-> i]
              /\ (p.Alpha /\ mPc # "merge: alpha") =>
                    (mImage.alpha = Len(aInputs) /\ mImage.alpha = k + 1)
              /\ (~p.Alpha \/ mPc = "merge: alpha") => mImage.alpha = 0

C12_Witness ==
    /\ mPc = "done" /\ aMerge /\ p.ColorSpace = "cmyk" /\ p.Alpha
    /\ mImage.color = <<1, 2, 3, 4>> /\ mImage.alpha = 5
    /\ Len(mWritten) = 1

\* SplitImage's outputs are named after the table with lum for xyy: what is
\* still to be written is a tail of the table's list (then "alpha"), of full
\* length before the first write, and every file written is named by the
\* template applied to a name of the list.
OutputsNamedBy(lum) ==
    (SplitRunning /\ mPc \in {"split: write", "done"}) =>
        LET all == NamesWith(p.ColorSpace, lum)
                      \o (IF p.Alpha THEN <<"alpha">> ELSE <<>>)
        IN  /\ Len(mOuts) <= Len(all)
            /\ InfoNames(mOuts) = LastOf(all, Len(mOuts))
            /\ \A i \in 1..Len(mWritten) :
                  \E j \in 1..(Len(all) - Len(mOuts)) :
                      mWritten[i].name = Sprintf(aOut, all[j])

\* C13 (as stated): the channel names are those of the registry table, with
\* x, y, Y for xyy.
C13_NamesAsRegistry == OutputsNamedBy("Y")

\* C13 (amended): the channel names are those of the registry table, except
\* that the luminance channel of xyy is named "YY".
C13_NamesWithYY == OutputsNamedBy("YY")

C13_Witness ==
    /\ mPc = "done" /\ aSplit /\ p.ColorSpace = "xyy" /\ ~p.Alpha
    /\ Len(mWritten) = 3
    /\ mWritten[1].name = "ox" /\ mWritten[2].name = "oy" /\ mWritten[3].name = "oYY"

\* The notify.Fatalf calls of parseWhitePoint.
WhiteFatals == {"white: not a pair", "white: x", "white: y", "white: x + y"}

\* n * 10^k for k >= 0.
BigScale(n, k) == BigMul(n, BigPow10(k))

\* The order (-1, 0, 1) of the sum of the numerals read in xs, none of them
\* negative, and 1, in exact arithmetic.
RECURSIVE ExactSum(_, _, _)
ExactSum(xs, i, e) ==
    IF i > Len(xs) THEN <<>>
    ELSE BigAdd(BigScale(xs[i].n, xs[i].e10 - e), ExactSum(xs, i + 1, e))

RECURSIVE LeastExponent(_, _)
LeastExponent(xs, i) ==
    IF i > Len(xs) THEN 0
    ELSE LET e == LeastExponent(xs, i + 1)
         IN  IF xs[i].e10 < e THEN xs[i].e10 ELSE e

ExactCmpOne(xs) ==
    LET e == LeastExponent(xs, 1)
    IN  BigCmp(ExactSum(xs, 1, e), BigPow10(-e))

\* The numeral read is zero, is negative, is above zero.
ExactZero(x) == x.n = <<>>
ExactNegative(x) == x.neg /\ x.n # <<>>
ExactPositive(x) == ~x.neg /\ x.n # <<>>

\* The --white argument as parseWhitePoint compares and cuts it.
WhiteUpper ==
    LET trimmed == TrimSpace(aWhite)
    IN  [i \in 1..Len(trimmed) |-> ToUpper(trimmed[i])]

WhiteStandard == WhiteUpper \in { <<"D", "6", "5">>, <<"D", "5", "0">> }

WhiteFields == FieldsFunc(WhiteUpper)

\* The argument is two numerals x y with 0 <= x <= 1 and 0 < y <= 1, the
\* numerals taken at their exact values.
WhitePairInRange ==
    /\ Len(WhiteFields) = 2
    /\ LET x == ReadFloat(WhiteFields[1])
           y == ReadFloat(WhiteFields[2])
       IN  /\ x.ok /\ y.ok
           /\ ~ExactNegative(x) /\ ExactPositive(y)
           /\ ExactCmpOne(<<x>>) <= 0 /\ ExactCmpOne(<<y>>) <= 0

\* x + y <= 1 for the numerals at their exact values, and for the doubles
\* nearest to them added in float64.
WhiteSumExact ==
    ExactCmpOne(<<ReadFloat(WhiteFields[1]), ReadFloat(WhiteFields[2])>>) <= 0

WhiteSumFloat64 ==
    DoubleCmp(DoubleAdd(ParseFloat(WhiteFields[1]).val,
                        ParseFloat(WhiteFields[2]).val), DoubleOne) <= 0

WhiteParsed == mPc \notin {"idle", "start"}

C15_WhitePointNonNegative ==
    (WhiteParsed /\ mFatal \notin WhiteFatals /\ ~WhiteStandard /\ WhiteSumExact) =>
        /\ DoubleCmp(ParseFloat(WhiteFields[2]).val, DoubleZero) # 0
        /\ p.WhitePoint[2] = DoubleOne
        /\ \A i \in 1..3 : DoubleCmp(p.WhitePoint[i], DoubleZero) >= 0

\* The field of the --white argument a failure of the checks of x or of y is
\* about: the first for x, the second for y.
OffendingField == WhiteFields[IF mFatal = "white: x" THEN 1 ELSE 2]

\* C27: the message of a white point rejected for its x names the x token,
\* and the message of a white point rejected for its y (unparsable or
\* outside (0, 1]) names the y token, the second number.
C27_MessageNamesOffender ==
    (mPc = "fatal" /\ mFatal \in {"white: x", "white: y"}) =>
        parseWhitePoint(aWhite).named = <<OffendingField>>

\* A white point rejected for its y, the x being another token.
C27_Witness ==
    /\ mPc = "fatal" /\ mFatal = "white: y"
    /\ aWhite = <<"0", ".", "2", " ", "1", ".", "5">>
    /\ parseWhitePoint(aWhite).named = << <<"0", ".", "2">> >>

\* C28: a WritePNG that fails is never silent: the step of SplitImage or of
\* MergeChannels whose file was not written ends the run in the fatal error
\* of the write.
C28_WriteFailureFatal ==
    [][ (mPc \in {"split: write", "merge: write"} /\ mWritten' = mWritten) =>
            (mPc' = "fatal" /\ mFatal' = "write") ]_vars

\* A merge whose WritePNG failed.
C28_Witness ==
    /\ mPc = "fatal" /\ mFatal = "write"
    /\ ~p.Split /\ mWritten = <<>>

\* C29: after a ParseCommandLine that succeeds p.ColorSpace is one of the
\* twelve names of colorSpaceList, the alpha suffix taken off; the switch of
\* performImageSplit and the switch of MergeChannels have a case for each of
\* the twelve, and no run reaches the panic of their default case.
C29_NoUnimplementedSpace ==
    /\ \A r \in {ParseResult(aSpace, aSplit, aMerge, aOut, aInputs, aWhite)} :
          (mPc # "start" /\ r.fatal = "") =>
              /\ p.ColorSpace \in colorSpaceNames
              /\ p.ColorSpace \in SplitCases \cap MergeCases
    /\ Cardinality(colorSpaceNames) = 12
    /\ colorSpaceNames \subseteq SplitCases \cap MergeCases
    /\ mPc # "panic"

\* performImageSplit has dispatched a name typed with the alpha suffix.
C29_Witness ==
    /\ mPc = "split: write"
    /\ aSpace = <<"H", "S", "L", "U", "V", "A">>
    /\ p.ColorSpace = "hsluv" /\ p.Alpha
    /\ Len(mOuts) = 4

-----------------------------------------------------------------------------
(* Claims about splitAny and its goroutines, checked under SpecRows *)

ChannelIndices == 1..Len(ChannelNames(rModel))

\* The rows whose goroutine took the step.
Stepped(y) == rW'[y] # rW[y] /\ rW[y].pc = "run"

\* The step wrote location loc of buffer i.
Wrote(i, loc) == rLog'[i][loc] # rLog[i][loc]

\* C22: the goroutine of row y writes only locations of row y, in every
\* buffer, so that in every interleaving a location of a buffer is written
\* by one goroutine only; the caller writes no buffer and nobody writes the
\* source image.
C22_RowsWriteOwnRow ==
    [][ /\ rImg' = rImg
        /\ \A i \in ChannelIndices : \A loc \in Locations(rBnds) :
              /\ Wrote(i, loc) => Stepped(loc[2])
              /\ \A k \in 1..Len(rLog'[i][loc]) : rLog'[i][loc][k] = loc[2] ]_vars

\* Two goroutines run at the same time and each has written a part of its row.
C22_Witness ==
    /\ rModel = "rgb" /\ rBnds = <<2, 3>> /\ rMain = "spawn"
    /\ rW[0].pc = "run" /\ rW[0].x = 1 /\ rW[0].i = 2
    /\ rW[1].pc = "run" /\ rW[1].x = 0 /\ rW[1].i = 3
    /\ rLog[1][<<0, 0>>] = <<0>> /\ rLog[1][<<0, 1>>] = <<1>>
    /\ rLog[3][<<0, 1>>] = <<>>

\* How often the goroutine of row y has called wg.Done().
DoneCount(y) == Cardinality({ k \in 1..Len(rDone) : rDone[k] = y })

\* C23: splitAny passes wg.Wait() and returns only when the goroutine of every
\* row has finished; by then every location of each of the N buffers has been
\* written exactly once, and no goroutine is left that could write later.
C23_JoinBeforeReturn ==
    rMain \in {"result", "returned"} =>
        /\ \A y \in Rows : rW[y].pc = IF y < rBnds[2] THEN "exit" ELSE "none"
        /\ DOMAIN rGrays = ChannelIndices
        /\ \A i \in ChannelIndices : \A loc \in Locations(rBnds) :
              Len(rLog[i][loc]) = 1
        /\ rMain = "returned" =>
              /\ Len(rResult) = Len(ChannelNames(rModel))
              /\ \A i \in ChannelIndices :
                    rResult[i] = [Name |-> ChannelNames(rModel)[i], Image |-> i]

C23_Witness ==
    /\ rMain = "returned" /\ rModel = "cmyk" /\ rBnds = <<2, 3>>
    /\ Len(rResult) = 4
    /\ \A i \in 1..4 : \A loc \in Locations(rBnds) : rLog[i][loc] = <<loc[2]>>

\* The buffers after the rows are processed one after the other, top to
\* bottom, each from left to right: k counts the pixels done, row by row.
RECURSIVE SequentialSplit(_, _, _, _)
SequentialSplit(model, img, bnds, k) ==
    IF k = 0 THEN allocGrays(bnds, Len(ChannelNames(model)))
    ELSE LET loc == <<(k - 1) % bnds[1], (k - 1) \div bnds[1]>>
             before == SequentialSplit(model, img, bnds, k - 1)
             s == SplitPixel(model, img[loc], NoLib)
         IN  [i \in DOMAIN before |-> [before[i] EXCEPT ![loc] = s[i]]]

Sequential == SequentialSplit(rModel, rImg, rBnds, rBnds[1] * rBnds[2])

\* C24: whatever the order in which the goroutines run, the buffers splitAny
\* returns hold what processing the rows one after the other, top to bottom,
\* gives; and on the way every location holds that sample once it is written.
C24_OrderIndependent ==
    \A seq \in {Sequential} :
        /\ \A i \in ChannelIndices : \A loc \in Locations(rBnds) :
              rGrays[i][loc] = IF rLog[i][loc] = <<>> THEN 0 ELSE seq[i][loc]
        /\ rMain = "returned" => rGrays = seq

\* The rows finished bottom to top, and the buffers are those of the
\* sequential run.
C24_Witness ==
    /\ rMain = "returned" /\ rModel = "cmyk" /\ rBnds = <<2, 3>>
    /\ rDone = <<2, 1, 0>>
    /\ rImg[<<1, 2>>] = NRGBA(1, 2, 10, 255)
    /\ rGrays = Sequential
    /\ rGrays[1][<<0, 0>>] # rGrays[1][<<1, 2>>]

\* C25: a call of splitAny runs to completion under fair scheduling, for
\* every number of rows, zero included: every goroutine started calls
\* wg.Done() exactly once, wg.Wait() returns, and in the end the caller has
\* returned and every goroutine has ended.
C25_RunsToCompletion ==
    /\ [](\A y \in Rows : DoneCount(y) <= 1)
    /\ <>[](/\ rMain = "returned"
            /\ \A y \in Rows :
                  IF y < rBnds[2] THEN rW[y].pc = "exit" /\ DoneCount(y) = 1
                  ELSE rW[y].pc = "none" /\ DoneCount(y) = 0)

C25_Witness ==
    /\ rMain = "returned" /\ rBnds = <<1, 3>> /\ rWg = 0
    /\ Len(rDone) = 3 /\ \A y \in 0..2 : rW[y].pc = "exit" /\ DoneCount(y) = 1

-----------------------------------------------------------------------------
(* Claims about an 8-bit channel value, checked under SpecByte *)

\* C30: for every 8-bit output v of the transform, the 16-bit sample SPLIT
\* stores for v, toGrayVal(v / 255) in float64, has high byte v (it is
\* v * 257, the sample of the exact quotient), so the value MERGE hands to
\* the inverse 8-bit transform, sample >> 8, is v.
C30_HighByteIsValue ==
    /\ bPc \in {"stored", "read"} =>
          /\ bSample \div 256 = bV
          /\ bSample = toGrayVal(Rat(bV, 255))
    /\ bPc = "read" => bHigh = bV

\* A value whose quotient by 255 is no double, stored and read back.
C30_Witness ==
    /\ bPc = "read" /\ bV = 254
    /\ bSample = 65278 /\ bHigh = 254

=============================================================================
